---------------------------- MODULE Spec2Model ----------------------------
(***************************************************************************)
(* Estimation and pricing pipeline of the quote engine.                    *)
(*                                                                         *)
(* Numbers.  The program computes with Python floats.  Here every amount   *)
(* is an exact rational <<n, d>> (d > 0, lowest terms), in the unit the    *)
(* code uses (dollars, hours, minutes, metres).  round(x, 2) is modelled   *)
(* as rounding to the nearest hundredth with exact ties going to the even  *)
(* hundredth (Python's rule on the exact value).  A float that is a hair   *)
(* off an exact tie can round the other way in the program.  The one      *)
(* place where the float's own rounding decides an integer result, the     *)
(* delivery trip count, is computed on binary floats of FloatBits          *)
(* significant bits (Fl).                                                  *)
(*                                                                         *)
(* Text.  A description is a sequence of one-character strings, so that    *)
(* Python's `in`, str.lower, str.startswith and re.search are computed on  *)
(* the characters, as the code does.                                       *)
(***************************************************************************)
EXTENDS Integers, Sequences, FiniteSets, TLC

VARIABLES
    pc,              \* position of the running computation
    hardware_list,   \* classify_hardware: its argument
    hw_i,            \* classify_hardware: lines consumed by the for loop
    hw_totals,       \* classify_hardware: the bucket totals
    dst,             \* _deep_update: the configuration being merged into
    src,             \* _deep_update: the override document
    base_doc,        \* the configuration as loaded, before any merge
    merges,          \* number of times src has been merged into dst
    entry,           \* the entry point computing the price: "web" or "cli"
    totals,          \* CategoryTotals: category -> cost
    policy,          \* policy.yaml after the override merge
    gst_rate,        \* rates.taxes.gst
    price_summary,   \* PriceSummary
    surcharge_cost,  \* _compute_project: the pass-through surcharge
    display,         \* render_client_quote: the amounts handed to the template
    products_data,   \* the parsed product list with the hardware lines attached
    overrides,       \* the project's override document (products, finger_pull)
    rates,           \* rates.yaml after the override merge
    asm_result,      \* assembly.estimate's result, then updated by _compute_project
    assembly_rules,  \* assembly_rules.yaml after the override merge
    asm_locals,      \* assembly.estimate: its locals (hw_totals, predicted_totals, scales, hours)
    inst_result,     \* install.estimate's result, then updated by _compute_project
    inst_locals,     \* install.estimate: its locals (hw_totals, predicted_totals, scales, hours)
    finger_pull,     \* _compute_project: the finger-pull figures
    delivery_result, \* _compute_project: the delivery figures
    run_entry,       \* the entry point of a computation run: "web" or "cli"
    overrides_file,  \* the project's overrides.json: whether it exists, and its document
    proj_overrides,  \* the entry point's local holding the override document, once bound
    run_rates,       \* the entry point's local `rates`
    sheets,          \* the sheet lines of the work order summary
    mat_bd,          \* materials.breakdown's items
    cnc_result,      \* cnc.estimate_from_materials' result
    calc_log,        \* the calculators called so far, each with the arguments it was given
    raw_fields,      \* the numeric fields of an input record as they arrive
    parsed,          \* the numbers the calculators have made of them so far
    trip_cbm,        \* _compute_project: total_cbm, the cargo volume of a delivery
    trip_cap,        \* _compute_project: cap, the truck capacity
    trip_count,      \* _compute_project: trips
    ov_store,        \* a project's overrides.json as persisted
    requests,        \* the override-modifying requests: handler, form, position, local document
    overlapped,      \* whether a request has read the document while another held a copy of it
    count_rows,      \* products_data["products"] as the count inference reads it
    count_rules,     \* assembly_rules.minutes_adders.hinges_per_door, or Missing
    perprod_counts,  \* estimate: the counts inferred for each product
    count_totals,    \* estimate: predicted_totals
    parts_data,      \* time_from_parts: the parts of the processing-station report
    edge_rates,      \* time_from_parts: rates.edgeband.minutes_per_edge as configured
    part_i,          \* time_from_parts: parts consumed by the for loop
    count_edges,     \* time_from_parts: the edged sides counted so far
    edge_hours,      \* time_from_parts: the hours returned
    fp_ov,           \* _compute_project: overrides["finger_pull"]
    fp_defaults,     \* _compute_project: rates["finger_pull"]
    fp_computed,     \* _compute_project: computed_fp, the doors and drawers _count_fp found
    fp_out,          \* _compute_project: doors_count, drawers_count, applied_parts, fp_cost
    crew_two,        \* install.estimate: rates.install_team.two_person_fraction
    crew_one,        \* install.estimate: rates.install_team.one_person_fraction
    crew_override,   \* install.estimate: rates.defaults.install_hours
    crew_total,      \* install.estimate: total_person_hours of the product loop
    crew_out,        \* install.estimate: the crew part of its result, with its locals
    oh_doc,          \* _compute_project: the override document
    oh_rates,        \* _compute_project: rates
    oh_args,         \* _compute_project: the hours passed to overhead.allocate
    oh_call          \* overhead.allocate: monthly, internal_hours and the cost returned

classifierVars == <<hardware_list, hw_i, hw_totals>>
mergeVars == <<dst, src, base_doc, merges>>
pricingVars == <<entry, totals, policy, gst_rate, price_summary, surcharge_cost, display>>

labourVars == <<products_data, overrides, rates, assembly_rules, asm_result, asm_locals,
                inst_result, inst_locals, finger_pull, delivery_result>>

runVars == <<run_entry, overrides_file, proj_overrides, run_rates, sheets, mat_bd,
             cnc_result, calc_log>>

degradedVars == <<raw_fields, parsed>>

tripVars == <<trip_cbm, trip_cap, trip_count>>

handlerVars == <<ov_store, requests, overlapped>>

countVars == <<count_rows, count_rules, perprod_counts, count_totals>>

edgeVars == <<parts_data, edge_rates, part_i, count_edges, edge_hours>>

fpVars == <<fp_ov, fp_defaults, fp_computed, fp_out>>

crewVars == <<crew_two, crew_one, crew_override, crew_total, crew_out>>

ohVars == <<oh_doc, oh_rates, oh_args, oh_call>>

vars == <<pc, classifierVars, mergeVars, pricingVars, labourVars, runVars, degradedVars, tripVars, handlerVars, countVars, edgeVars, fpVars, crewVars, ohVars>>

---------------------------------------------------------------------------
(* Exact rational arithmetic                                               *)

\* Python evaluates an operand or an argument once and then works with its
\* value: With(v, F) is F applied to the value of v, With2 the same for two
Only(S) == CHOOSE x \in S : TRUE
With(v, F(_)) == Only({F(x) : x \in {v}})
With2(v, w, F(_, _)) == Only({F(x, y) : x \in {v}, y \in {w}})

Abs(x) == IF x < 0 THEN -x ELSE x

RECURSIVE GCD(_, _)
GCD(a, b) == With2(a, b, LAMBDA x, y : IF y = 0 THEN x ELSE GCD(y, x % y))

\* the fraction n/d (d # 0) in lowest terms with a positive denominator
Rat(n, d) ==
    With2(n, d, LAMBDA a, b :
        With(GCD(Abs(a), Abs(b)), LAMBDA g :
            <<((IF b < 0 THEN -1 ELSE 1) * a) \div g, Abs(b) \div g>>))

Int2R(n) == <<n, 1>>
RZero == <<0, 1>>
ROne == <<1, 1>>

RMul(x, y) ==
    With2(x, y, LAMBDA a, b :
        With2(GCD(Abs(a[1]), b[2]), GCD(Abs(b[1]), a[2]), LAMBDA g1, g2 :
            Rat((a[1] \div g1) * (b[1] \div g2), (a[2] \div g2) * (b[2] \div g1))))

RAdd(x, y) ==
    With2(x, y, LAMBDA a, b :
        With(GCD(a[2], b[2]), LAMBDA g :
            Rat(a[1] * (b[2] \div g) + b[1] * (a[2] \div g), (a[2] \div g) * b[2])))

RNeg(x) == With(x, LAMBDA a : <<-a[1], a[2]>>)
RSub(x, y) == RAdd(x, RNeg(y))
RInv(x) == With(x, LAMBDA a : Rat(a[2], a[1]))
RDiv(x, y) == RMul(x, RInv(y))
RLt(x, y) == RSub(x, y)[1] < 0
RLe(x, y) == RSub(x, y)[1] <= 0
RMax(x, y) == With2(x, y, LAMBDA a, b : IF RLt(a, b) THEN b ELSE a)
RFloor(x) == With(x, LAMBDA a : a[1] \div a[2])
RIsInt(x) == x[2] = 1

RECURSIVE RSum(_)
RSum(s) == With(s, LAMBDA t : IF t = <<>> THEN RZero ELSE RAdd(Head(t), RSum(Tail(t))))

\* Python int(x) of a float: truncation toward zero
RTrunc(x) == With(x, LAMBDA a : IF a[1] >= 0 THEN a[1] \div a[2] ELSE -((-a[1]) \div a[2]))

\* Python round(x, places) with scale = 10^places
RRound(x, scale) ==
    With(RMul(x, Int2R(scale)), LAMBDA m :
        LET f == m[1] \div m[2]
            r == m[1] % m[2]                  \* frac(m) = r / m[2]
            up == IF 2 * r = m[2] THEN f % 2 = 1 ELSE 2 * r > m[2]
        IN  Rat(IF up THEN f + 1 ELSE f, scale))

Round2(x) == RRound(x, 100)

\* x mod y for x >= 0 and y > 0
RMod(x, y) == With2(x, y, LAMBDA a, b : RSub(a, RMul(Int2R(RFloor(RDiv(a, b))), b)))

\* the least integer not below x
RCeil(x) == With(x, LAMBDA a : -((-a[1]) \div a[2]))

\* Python's float is binary floating point: the result of a division or an
\* addition is the representable number nearest to the exact result, ties to
\* the even mantissa.  FloatBits is the number of significant bits kept
\* here (Python keeps 53).
FloatBits == 8

RECURSIVE Pow2(_)
Pow2(n) == IF n = 0 THEN 1 ELSE 2 * Pow2(n - 1)

\* the power of two s with 2^(FloatBits-1) <= x / s < 2^FloatBits, x > 0
RECURSIVE FlScale(_, _)
FlScale(x, s) ==
    IF RLt(x, RMul(Int2R(Pow2(FloatBits - 1)), s)) THEN FlScale(x, RDiv(s, Int2R(2)))
    ELSE IF ~RLt(x, RMul(Int2R(Pow2(FloatBits)), s)) THEN FlScale(x, RMul(s, Int2R(2)))
    ELSE s

\* x >= 0 rounded to the nearest float
Fl(x) ==
    With(x, LAMBDA a :
        IF a = RZero THEN RZero
        ELSE With(FlScale(a, ROne), LAMBDA s : RMul(RRound(RDiv(a, s), 1), s)))

---------------------------------------------------------------------------
(* Text                                                                    *)

UpperChars == <<"A","B","C","D","E","F","G","H","I","J","K","L","M","N","O","P","Q","R","S","T","U","V","W","X","Y","Z">>
LowerChars == <<"a","b","c","d","e","f","g","h","i","j","k","l","m","n","o","p","q","r","s","t","u","v","w","x","y","z">>
DigitChars == <<"0","1","2","3","4","5","6","7","8","9">>

LowerChar(c) ==
    IF \E i \in 1..26 : UpperChars[i] = c
    THEN LowerChars[CHOOSE i \in 1..26 : UpperChars[i] = c]
    ELSE c

\* str.lower()
RECURSIVE Lower(_)
Lower(s) ==
    With(s, LAMBDA t : IF t = <<>> THEN <<>> ELSE <<LowerChar(Head(t))>> \o Lower(Tail(t)))

\* sub == s[i : i + len(sub)] (i counted from 1)
MatchAt(sub, s, i) ==
    With(i, LAMBDA k :
        /\ k >= 1
        /\ k + Len(sub) - 1 <= Len(s)
        /\ \A j \in 1..Len(sub) : s[k + j - 1] = sub[j])

\* Python's `sub in s`
Contains(sub, s) ==
    With2(sub, s, LAMBDA u, t : \E i \in 1..(Len(t) + 1) : MatchAt(u, t, i))

\* str.startswith
StartsWith(sub, s) == With2(sub, s, LAMBDA u, t : MatchAt(u, t, 1))

\* the regular-expression classes \d and \s
IsDigit(c) == \E i \in 1..10 : DigitChars[i] = c
IsSpace(c) == c = " "

DigitVal(c) == (CHOOSE i \in 1..10 : DigitChars[i] = c) - 1

\* int() / float() of a run of digits
RECURSIVE ParseInt(_)
ParseInt(ds) ==
    With(ds, LAMBDA t :
        IF t = <<>> THEN 0
        ELSE 10 * ParseInt(SubSeq(t, 1, Len(t) - 1)) + DigitVal(t[Len(t)]))

\* the last index of the longest run of Cls characters of s that starts at i
\* (i - 1 when there is none): what a greedy \d+ or \s* consumes there
RunEnd(Cls(_), s, i) ==
    With(i, LAMBDA b :
        IF b > Len(s) \/ ~Cls(s[b]) THEN b - 1
        ELSE CHOOSE j \in b..Len(s) :
                /\ \A k \in b..j : Cls(s[k])
                /\ j = Len(s) \/ ~Cls(s[j + 1]))

Min(S) == CHOOSE m \in S : \A n \in S : m <= n
Max2(a, b) == IF a >= b THEN a ELSE b

\* re.search(r"(\d+)\s*" + word, s): int(group(1)) of the leftmost match, -1
\* when there is no match
SearchCount(word, s) ==
    With2(word, s, LAMBDA w, d :
        LET Hit(i) ==
                /\ IsDigit(d[i])
                /\ MatchAt(w, d, RunEnd(IsSpace, d, RunEnd(IsDigit, d, i) + 1) + 1)
        IN  With({i \in 1..Len(d) : Hit(i)}, LAMBDA hits :
                IF hits = {} THEN -1
                ELSE ParseInt(SubSeq(d, Min(hits), RunEnd(IsDigit, d, Min(hits))))))

\* re.search(r"base\s+(\d+)\s+" + word, s, re.IGNORECASE): int(group(1)) of the
\* leftmost match, -1 when there is no match
SearchBaseCount(word, s) ==
    With2(word, Lower(s), LAMBDA w, d :
        LET Hit(i) ==
                /\ MatchAt(<<"b","a","s","e">>, d, i)
                /\ With(RunEnd(IsSpace, d, i + 4), LAMBDA sp1 :
                       /\ sp1 >= i + 4
                       /\ With(RunEnd(IsDigit, d, sp1 + 1), LAMBDA dg :
                              /\ dg >= sp1 + 1
                              /\ With(RunEnd(IsSpace, d, dg + 1), LAMBDA sp2 :
                                     /\ sp2 >= dg + 1
                                     /\ MatchAt(w, d, sp2 + 1))))
        IN  With({i \in 1..Len(d) : Hit(i)}, LAMBDA hits :
                IF hits = {} THEN -1
                ELSE With(RunEnd(IsSpace, d, Min(hits) + 4), LAMBDA sp1 :
                         ParseInt(SubSeq(d, sp1 + 1, RunEnd(IsDigit, d, sp1 + 1))))))

---------------------------------------------------------------------------
(* HardwareClassifier: logic/hardware_counts.py                            *)

Buckets == {"drawer_kits", "inner_drawers", "hinges", "adj_feet", "bins", "liftup"}

ZeroTotals == [b \in Buckets |-> 0]

\* the keyword tests of the loop body, on the lower-cased description
IsFeetDesc(desc) ==
    \/ Contains(<<"a","d","j"," ","l","e","g">>, desc)
    \/ Contains(<<"a","d","j"," ","f","e","e","t">>, desc)
    \/ Contains(<<"a","d","j","u","s","t","a","b","l","e"," ","l","e","g">>, desc)
    \/ Contains(<<"a","d","j","u","s","t","a","b","l","e"," ","f","e","e","t">>, desc)

IsDrawerSupportDesc(desc) ==
    Contains(<<"d","r","a","w","e","r"," ","s","u","p","p","o","r","t">>, desc)

IsDrawerKitDesc(desc) ==
    \/ Contains(<<"d","r","a","w","e","r"," ","k","i","t">>, desc)
    \/ /\ Contains(<<"i","n","n","e","r"," ","d","r","a","w","e","r">>, desc)
       /\ Contains(<<"k","i","t">>, desc)

HasInner(desc) == Contains(<<"i","n","n","e","r">>, desc)

IsHingeDesc(desc) == Contains(<<"h","i","n","g","e">>, desc)

IsBinDesc(desc) == Contains(<<"b","i","n">>, desc)

IsLiftDesc(desc) ==
    \/ Contains(<<"a","v","e","n","t","o","s">>, desc)
    \/ Contains(<<"l","i","f","t","u","p">>, desc)
    \/ Contains(<<"l","i","f","t","-","u","p">>, desc)
    \/ Contains(<<"l","i","f","t"," ","m","e","c","h","a","n","i","s","m">>, desc)

\* a variant of the loop body whose hinge branch has lost its `continue`:
\* a hinge line goes on to the bin test as well
ClassifyLineFallThrough(t, h) ==
    LET desc == Lower(h.description)
        qty == h.qty
    IN  IF IsFeetDesc(desc) THEN [t EXCEPT !.adj_feet = @ + qty]
        ELSE IF IsDrawerSupportDesc(desc) THEN t
        ELSE IF IsDrawerKitDesc(desc)
             THEN IF HasInner(desc)
                  THEN [t EXCEPT !.inner_drawers = @ + qty]
                  ELSE [t EXCEPT !.drawer_kits = @ + qty]
        ELSE LET t1 == IF IsHingeDesc(desc) THEN [t EXCEPT !.hinges = @ + qty] ELSE t
             IN  IF IsBinDesc(desc) THEN [t1 EXCEPT !.bins = @ + qty]
                 ELSE IF IsLiftDesc(desc) THEN [t1 EXCEPT !.liftup = @ + qty]
                 ELSE t1

\* a variant of the loop body that tests the hinge rule first
ClassifyLineHingeFirst(t, h) ==
    LET desc == Lower(h.description)
        qty == h.qty
    IN  IF IsHingeDesc(desc) THEN [t EXCEPT !.hinges = @ + qty]
        ELSE IF IsFeetDesc(desc) THEN [t EXCEPT !.adj_feet = @ + qty]
        ELSE IF IsDrawerSupportDesc(desc) THEN t
        ELSE IF IsDrawerKitDesc(desc)
             THEN IF HasInner(desc)
                  THEN [t EXCEPT !.inner_drawers = @ + qty]
                  ELSE [t EXCEPT !.drawer_kits = @ + qty]
        ELSE IF IsBinDesc(desc) THEN [t EXCEPT !.bins = @ + qty]
        ELSE IF IsLiftDesc(desc) THEN [t EXCEPT !.liftup = @ + qty]
        ELSE t

\* one iteration of `for h in hardware_list`: the if/continue chain
ClassifyLine(t, h) ==
    LET desc == Lower(h.description)
        qty == h.qty
    IN  IF IsFeetDesc(desc) THEN [t EXCEPT !.adj_feet = @ + qty]
        ELSE IF IsDrawerSupportDesc(desc) THEN t
        ELSE IF IsDrawerKitDesc(desc)
             THEN IF HasInner(desc)
                  THEN [t EXCEPT !.inner_drawers = @ + qty]
                  ELSE [t EXCEPT !.drawer_kits = @ + qty]
        ELSE IF IsHingeDesc(desc) THEN [t EXCEPT !.hinges = @ + qty]
        ELSE IF IsBinDesc(desc) THEN [t EXCEPT !.bins = @ + qty]
        ELSE IF IsLiftDesc(desc) THEN [t EXCEPT !.liftup = @ + qty]
        ELSE t

\* the for loop: the loop body applied to each line in order
RECURSIVE ClassifyFrom(_, _)
ClassifyFrom(t, lines) ==
    IF lines = <<>> THEN t ELSE ClassifyFrom(ClassifyLine(t, Head(lines)), Tail(lines))

\* classify_hardware(hardware_list)
classify_hardware(lines) == ClassifyFrom(ZeroTotals, lines)

\* Inputs: hardware lines as the work-order importer yields them
D_AdjLeg == <<"A","d","j"," ","L","e","g"," ","1","0","0","m","m">>
D_DrawerSupport == <<"D","r","a","w","e","r"," ","S","u","p","p","o","r","t">>
D_DrawerKit == <<"D","r","a","w","e","r"," ","K","i","t"," ","5","0","0">>
D_InnerDrawerKit == <<"I","n","n","e","r"," ","D","r","a","w","e","r"," ","K","i","t">>
D_InnerRunnerKit == <<"I","n","n","e","r"," ","d","r","a","w","e","r"," ","r","u","n","n","e","r"," ","k","i","t">>
D_Hinge == <<"H","i","n","g","e"," ","1","6","5"," ","s","o","f","t","-","c","l","o","s","e">>
D_DoorHinge == <<"D","o","o","r"," ","H","i","n","g","e">>
D_WasteBin == <<"W","a","s","t","e"," ","B","i","n">>
D_Aventos == <<"A","v","e","n","t","o","s"," ","H","F">>
D_Handle == <<"H","a","n","d","l","e">>
D_DrawerKitHinge == <<"D","r","a","w","e","r"," ","K","i","t"," ","H","i","n","g","e">>
D_BinLidHinge == <<"B","i","n"," ","l","i","d"," ","h","i","n","g","e">>
D_LegHinge == <<"A","d","j","u","s","t","a","b","l","e"," ","l","e","g"," ","h","i","n","g","e">>

HardwareDescs ==
    {D_AdjLeg, D_DrawerSupport, D_DrawerKit, D_InnerDrawerKit, D_InnerRunnerKit,
     D_Hinge, D_DoorHinge, D_WasteBin, D_Aventos, D_Handle, D_DrawerKitHinge,
     D_BinLidHinge, D_LegHinge}

HardwareQtys == {3, 40}

HardwareLines == [description : HardwareDescs, qty : HardwareQtys]

MaxLines == 2

SeqsUpTo(S, n) == UNION {[1..k -> S] : k \in 0..n}

ClassifierIdle ==
    /\ hardware_list = <<>>
    /\ hw_i = 0
    /\ hw_totals = ZeroTotals

\* entry of classify_hardware: totals zeroed, the loop not yet started
ClassifyInit ==
    /\ hardware_list \in SeqsUpTo(HardwareLines, MaxLines)
    /\ hw_i = 0
    /\ hw_totals = ZeroTotals

\* one pass of the for loop
ClassifyStep ==
    /\ pc = "classify"
    /\ hw_i < Len(hardware_list)
    /\ hw_totals' = ClassifyLine(hw_totals, hardware_list[hw_i + 1])
    /\ hw_i' = hw_i + 1
    /\ UNCHANGED <<pc, hardware_list, mergeVars, pricingVars, labourVars,
                   runVars,
                   degradedVars,
                   tripVars,
                   handlerVars,
                   countVars,
                   edgeVars,
                   fpVars,
                   crewVars,
                   ohVars>>

\* `return totals`
ClassifyReturn ==
    /\ pc = "classify"
    /\ hw_i = Len(hardware_list)
    /\ pc' = "classified"
    /\ UNCHANGED <<classifierVars, mergeVars, pricingVars, labourVars,
                   runVars,
                   degradedVars,
                   tripVars,
                   handlerVars,
                   countVars,
                   edgeVars,
                   fpVars,
                   crewVars,
                   ohVars>>

\* The claims' reading of the classifier: the rules in their fixed order
RuleOrder == <<"feet", "drawer_support", "drawer_kit", "hinge", "bin", "lift">>

RuleMatches(r, desc) ==
    CASE r = "feet" -> IsFeetDesc(desc)
      [] r = "drawer_support" -> IsDrawerSupportDesc(desc)
      [] r = "drawer_kit" -> IsDrawerKitDesc(desc)
      [] r = "hinge" -> IsHingeDesc(desc)
      [] r = "bin" -> IsBinDesc(desc)
      [] r = "lift" -> IsLiftDesc(desc)

MatchingRules(desc) == {i \in 1..Len(RuleOrder) : RuleMatches(RuleOrder[i], desc)}

\* the bucket of the first matching rule, "none" when no rule matches or the
\* first match is 'drawer support'
RuleBucket(desc) ==
    IF MatchingRules(desc) = {} THEN "none"
    ELSE LET i == CHOOSE m \in MatchingRules(desc) : \A n \in MatchingRules(desc) : m <= n
             r == RuleOrder[i]
         IN  CASE r = "feet" -> "adj_feet"
               [] r = "drawer_support" -> "none"
               [] r = "drawer_kit" -> IF HasInner(desc) THEN "inner_drawers" ELSE "drawer_kits"
               [] r = "hinge" -> "hinges"
               [] r = "bin" -> "bins"
               [] r = "lift" -> "liftup"

RECURSIVE QtyWhere(_, _)
QtyWhere(P(_), lines) ==
    IF lines = <<>> THEN 0
    ELSE (IF P(Lower(Head(lines).description)) THEN Head(lines).qty ELSE 0)
         + QtyWhere(P, Tail(lines))

ConsumedLines == SubSeq(hardware_list, 1, hw_i)

BucketSum ==
    hw_totals.drawer_kits + hw_totals.inner_drawers + hw_totals.hinges
    + hw_totals.adj_feet + hw_totals.bins + hw_totals.liftup

\* C7: after any number of loop passes each bucket holds exactly the
\* quantities of the consumed lines whose first matching rule (in the order
\* feet, drawer support, drawer kit, hinge, bin, lift) selects that bucket, so
\* a line adds its quantity to at most one bucket and the six totals sum to
\* the quantities of the lines that matched a bucket rule.
C7_OneBucketPerLine ==
    /\ \A b \in Buckets :
          LET InB(desc) == RuleBucket(desc) = b
          IN  hw_totals[b] = QtyWhere(InB, ConsumedLines)
    /\ LET Matched(desc) == RuleBucket(desc) # "none"
       IN  BucketSum = QtyWhere(Matched, ConsumedLines)

\* a finished classification holding a line that matches two rules, a line
\* that matches none and a 'drawer support' line
C7_Witness ==
    /\ pc = "classified"
    /\ \E i \in 1..Len(hardware_list) :
          Cardinality(MatchingRules(Lower(hardware_list[i].description))) >= 2
    /\ \E i \in 1..Len(hardware_list) :
          \/ MatchingRules(Lower(hardware_list[i].description)) = {}
          \/ IsDrawerSupportDesc(Lower(hardware_list[i].description))
    /\ BucketSum > 0

\* C8 as stated: every line whose description contains 'hinge' is counted in
\* the hinges bucket with its full quantity, whatever else it contains.
C8_HingeAlwaysHinges ==
    pc = "classified" => hw_totals.hinges = QtyWhere(IsHingeDesc, hardware_list)

\* C8 amended: a line containing 'hinge' is counted in the hinges bucket with
\* its full quantity unless an earlier rule (feet/leg, drawer support, drawer
\* kit) matches it; a door or drawer word alone does not divert it.
C8_HingeUnlessEarlierRule ==
    pc = "classified" =>
        LET HingeOnly(desc) ==
                /\ IsHingeDesc(desc)
                /\ ~IsFeetDesc(desc)
                /\ ~IsDrawerSupportDesc(desc)
                /\ ~IsDrawerKitDesc(desc)
        IN  hw_totals.hinges = QtyWhere(HingeOnly, hardware_list)

\* a finished classification with a hinge line that also names a door, and a
\* hinge line that an earlier rule took
C8_Witness ==
    /\ pc = "classified"
    /\ \E i \in 1..Len(hardware_list) :
          LET desc == Lower(hardware_list[i].description)
          IN  /\ IsHingeDesc(desc)
              /\ Contains(<<"d","o","o","r">>, desc)
              /\ hw_totals.hinges >= hardware_list[i].qty
    /\ \E i \in 1..Len(hardware_list) :
          LET desc == Lower(hardware_list[i].description)
          IN  IsHingeDesc(desc) /\ IsDrawerKitDesc(desc)

---------------------------------------------------------------------------
(* OverrideMerger: web/app.py _deep_update                                 *)

\* A configuration value: a scalar, a list or a nested map.  `val` holds a
\* scalar as a one-element sequence and a list as its elements; `items` holds
\* a map's entries as a function from its keys.
Scalar(v) == [kind |-> "scalar", val |-> <<v>>, items |-> <<>>]
ListV(l) == [kind |-> "list", val |-> l, items |-> <<>>]
DictV(f) == [kind |-> "dict", val |-> <<>>, items |-> f]

\* isinstance(v, dict)
IsDict(v) == v.kind = "dict"

\* a variant that merges with dict.update: the override value always
\* replaces the base value, nested maps included
RECURSIVE DeepUpdateShallow(_, _)
DeepUpdateShallow(d, s) ==
    [k \in DOMAIN d \cup DOMAIN s |-> IF k \in DOMAIN s THEN s[k] ELSE d[k]]

\* a variant that extends a base list by the override list
RECURSIVE DeepUpdateExtendLists(_, _)
DeepUpdateExtendLists(d, s) ==
    [k \in DOMAIN d \cup DOMAIN s |->
        IF k \in DOMAIN s
        THEN IF IsDict(s[k]) /\ k \in DOMAIN d /\ IsDict(d[k])
             THEN DictV(DeepUpdateExtendLists(d[k].items, s[k].items))
             ELSE IF s[k].kind = "list" /\ k \in DOMAIN d /\ d[k].kind = "list"
                  THEN ListV(d[k].val \o s[k].val)
                  ELSE s[k]
        ELSE d[k]]

\* _deep_update(dst, src): the value of dst when the loop over src.items()
\* has run.  The passes of the loop touch distinct keys, so their order does
\* not matter; `dst[k] = v` stores the override's own object, which a second
\* merge of the same document then updates with itself, changing nothing.
RECURSIVE DeepUpdate(_, _)
DeepUpdate(d, s) ==
    [k \in DOMAIN d \cup DOMAIN s |->
        IF k \in DOMAIN s
        THEN IF IsDict(s[k]) /\ k \in DOMAIN d /\ IsDict(d[k])
             THEN DictV(DeepUpdate(d[k].items, s[k].items))
             ELSE s[k]
        ELSE d[k]]

\* Inputs: documents over two keys, nested up to three maps deep
PartialFns(K, V) == UNION {[D -> V] : D \in SUBSET K}

Leaves == {Scalar(1), ListV(<<2>>)}

Dicts1 == {DictV(f) : f \in PartialFns({"a", "b"}, Leaves)}

Dicts2 == {DictV(f) : f \in PartialFns({"a"}, Leaves \cup Dicts1)}

Docs ==
    {f \in PartialFns({"a", "b"}, Leaves \cup Dicts1 \cup Dicts2) :
        "b" \in DOMAIN f => f["b"] \in Leaves}

MaxMerges == 2

MergeIdle ==
    /\ dst = <<>>
    /\ src = <<>>
    /\ base_doc = <<>>
    /\ merges = 0

\* a configuration as loaded and an override document as read
MergeInit ==
    /\ dst \in Docs
    /\ src \in Docs
    /\ base_doc = dst
    /\ merges = 0

\* _deep_update(dst, src), dst updated in place
MergeStep ==
    /\ pc = "merge"
    /\ merges < MaxMerges
    /\ dst' = DeepUpdate(dst, src)
    /\ merges' = merges + 1
    /\ UNCHANGED <<pc, src, base_doc, classifierVars, pricingVars, labourVars,
                   runVars,
                   degradedVars,
                   tripVars,
                   handlerVars,
                   countVars,
                   edgeVars,
                   fpVars,
                   crewVars,
                   ohVars>>

\* the computation goes on to the calculators with dst as its configuration
MergeDone ==
    /\ pc = "merge"
    /\ merges >= 1
    /\ pc' = "merged"
    /\ UNCHANGED <<mergeVars, classifierVars, pricingVars, labourVars,
                   runVars,
                   degradedVars,
                   tripVars,
                   handlerVars,
                   countVars,
                   edgeVars,
                   fpVars,
                   crewVars,
                   ohVars>>

\* every key path of a document
RECURSIVE Paths(_)
Paths(d) ==
    UNION {{<<k>>} \cup (IF IsDict(d[k])
                         THEN {<<k>> \o p : p \in Paths(d[k].items)}
                         ELSE {}) : k \in DOMAIN d}

\* the value at a key path of a document
RECURSIVE At(_, _)
At(d, p) == IF Len(p) = 1 THEN d[p[1]] ELSE At(d[p[1]].items, Tail(p))

ProperPrefixes(p) == {SubSeq(p, 1, n) : n \in 1..(Len(p) - 1)}

\* C5: merging the same override document again changes nothing.
C5_MergeIdempotent == [][(pc = "merge" /\ merges >= 1) => dst' = dst]_vars

\* merged twice, where the merge changed the base and went into a nested map
C5_Witness ==
    /\ merges = 2
    /\ dst # base_doc
    /\ \E k \in DOMAIN src \cap DOMAIN base_doc :
          /\ IsDict(src[k]) /\ IsDict(base_doc[k])
          /\ src[k].items # <<>>
          /\ dst[k] # src[k]

\* C6 as stated: every key path of the base is still a key path after the
\* merge.
C6_NoPathDeleted == merges >= 1 => Paths(base_doc) \subseteq Paths(dst)

\* C6 amended: a key path of the base is missing after the merge exactly when
\* the override holds a non-map value at a proper prefix of it (that value
\* replaces the nested map wholesale); every top-level key of the base stays.
C6_PathsKeptUnlessMapReplaced ==
    merges >= 1 =>
        /\ DOMAIN base_doc \subseteq DOMAIN dst
        /\ \A p \in Paths(base_doc) :
              p \notin Paths(dst) <=>
                  \E q \in ProperPrefixes(p) : q \in Paths(src) /\ ~IsDict(At(src, q))

\* merged, with a nested base path kept under a map-valued override and
\* another base path dropped under a non-map override
C6_Witness ==
    /\ merges >= 1
    /\ \E p \in Paths(base_doc) :
          /\ Len(p) >= 2
          /\ p \in Paths(dst)
          /\ <<p[1]>> \in Paths(src)
          /\ IsDict(At(src, <<p[1]>>))
          /\ At(src, <<p[1]>>).items # <<>>
    /\ \E p \in Paths(base_doc) : p \notin Paths(dst)

---------------------------------------------------------------------------
(* PricingEngine: calculators/pricing.py, and the pricing tail of          *)
(* web/app.py _compute_project and cli.py price                            *)

\* dict.get(k, 0) or 0
Get(t, k) == IF k \in DOMAIN t THEN t[k] ELSE RZero

\* sum(float(v or 0.0) for v in t.values())
RECURSIVE SumValues(_)
SumValues(t) ==
    IF DOMAIN t = {} THEN RZero
    ELSE LET k == CHOOSE x \in DOMAIN t : TRUE
         IN  RAdd(t[k], SumValues([x \in DOMAIN t \ {k} |-> t[x]]))

\* max(1.0 - margin, 0.0001)
MarginDivisor(margin) == RMax(RSub(ROne, margin), <<1, 10000>>)

\* a variant of price that rounds down to the increment
PriceFloor(t, rate, pol) ==
    LET ex_gst_subtotal == SumValues(t)
        raw == RDiv(ex_gst_subtotal, MarginDivisor(pol.target_margin))
        rounding == RTrunc(pol.rounding)
        price_ex_gst ==
            IF rounding > 0
            THEN Int2R(RFloor(RDiv(raw, Int2R(rounding))) * rounding)
            ELSE raw
        gst == RMul(price_ex_gst, rate)
    IN  [subtotal_ex_gst |-> Round2(ex_gst_subtotal),
         price_ex_gst |-> Round2(price_ex_gst),
         gst |-> Round2(gst),
         total_inc_gst |-> Round2(RAdd(price_ex_gst, gst))]

\* a variant of price that leaves the margin-adjusted price unrounded
PriceUnrounded(t, rate, pol) ==
    LET ex_gst_subtotal == SumValues(t)
        price_ex_gst == RDiv(ex_gst_subtotal, MarginDivisor(pol.target_margin))
        gst == RMul(price_ex_gst, rate)
    IN  [subtotal_ex_gst |-> Round2(ex_gst_subtotal),
         price_ex_gst |-> Round2(price_ex_gst),
         gst |-> Round2(gst),
         total_inc_gst |-> Round2(RAdd(price_ex_gst, gst))]

\* pricing.price(totals, rates, policy)
Price(t, rate, pol) ==
    LET ex_gst_subtotal == SumValues(t)
        raw == RDiv(ex_gst_subtotal, MarginDivisor(pol.target_margin))
        rounding == RTrunc(pol.rounding)          \* int(policy.get("rounding", 10))
        price_ex_gst ==
            IF rounding > 0
            THEN Int2R(RFloor(RDiv(RAdd(raw, <<rounding, 2>>), Int2R(rounding))) * rounding)
            ELSE raw
        gst == RMul(price_ex_gst, rate)
        total_inc_gst == RAdd(price_ex_gst, gst)
    IN  [subtotal_ex_gst |-> Round2(ex_gst_subtotal),
         price_ex_gst |-> Round2(price_ex_gst),
         gst |-> Round2(gst),
         total_inc_gst |-> Round2(total_inc_gst)]

\* warranty_percent + contingency_percent + merchant_percent
SurchargePct(pol) ==
    RAdd(RAdd(pol.surcharges.warranty_percent, pol.surcharges.contingency_percent),
         pol.surcharges.merchant_percent)

\* _compute_project: totals with the flat allowance added when it is non-zero
WithAllowances(t, pol) ==
    IF pol.allowances_flat # RZero
    THEN [k \in DOMAIN t \cup {"allowances"} |->
             IF k = "allowances" THEN Round2(pol.allowances_flat) ELSE t[k]]
    ELSE t

\* a variant of the surcharge that keeps the fractions of a cent
SurchargeCostUnrounded(t, pol) ==
    IF SurchargePct(pol) # RZero
    THEN RMul(SumValues(t), RDiv(SurchargePct(pol), Int2R(100)))
    ELSE RZero

\* _compute_project: the surcharge on the totals including allowances
SurchargeCost(t, pol) ==
    IF SurchargePct(pol) # RZero
    THEN Round2(RMul(SumValues(t), RDiv(SurchargePct(pol), Int2R(100))))
    ELSE RZero

\* a variant that lists finger_pull and delivery as well
CatOrderAllCategories ==
    <<"materials", "edgeband", "hardware", "cnc", "panel_saw", "assembly", "install",
      "finger_pull", "delivery", "overhead">>

\* the category order of the client quote
CatOrder ==
    <<"materials", "edgeband", "hardware", "cnc", "panel_saw", "assembly", "install", "overhead">>

\* a variant of the display reconciliation whose delta leaves the surcharge out
RenderDisplayNoSurchargeInDelta(category_totals, pol, price) ==
    LET m_target == IF pol.target_margin = RZero THEN <<3, 10>> ELSE pol.target_margin
        factor == RInv(MarginDivisor(m_target))
        allowances_flat ==
            IF "allowances" \in DOMAIN category_totals
            THEN category_totals["allowances"] ELSE pol.allowances_flat
        subtotal_for_surcharges ==
            RAdd(RSum([i \in 1..Len(CatOrder) |-> Get(category_totals, CatOrder[i])]),
                 pol.allowances_flat)
        surcharge_total ==
            IF "surcharges" \in DOMAIN category_totals
            THEN category_totals["surcharges"]
            ELSE IF SurchargePct(pol) # RZero
                 THEN RMul(subtotal_for_surcharges, RDiv(SurchargePct(pol), Int2R(100)))
                 ELSE RZero
        scaled == [i \in 1..Len(CatOrder) |->
                      Round2(RMul(Get(category_totals, CatOrder[i]), factor))]
        allowances_display == Round2(RMul(allowances_flat, factor))
        surcharge_display == Round2(RMul(surcharge_total, factor))
        subtotal_display == Round2(RAdd(RSum(scaled), allowances_display))
        delta == Round2(RSub(price.price_ex_gst, subtotal_display))
        cat == [k \in {CatOrder[i] : i \in 1..Len(CatOrder)} |->
                   LET v == scaled[CHOOSE i \in 1..Len(CatOrder) : CatOrder[i] = k]
                   IN  IF k = "install" THEN Round2(RAdd(v, delta)) ELSE v]
    IN  [category_display |-> cat,
         allowances_display |-> allowances_display,
         surcharge_display |-> surcharge_display,
         subtotal_display |->
             Round2(RAdd(RSum([i \in 1..Len(CatOrder) |-> cat[CatOrder[i]]]),
                         allowances_display)),
         factor |-> factor,
         delta |-> delta]

\* render_client_quote: the allowances, surcharges, margin factor, display
\* amounts and rounding delta it hands to the template
RenderDisplay(category_totals, pol, price) ==
    LET \* float(policy.get("target_margin", 0.30) or 0.30)
        m_target == IF pol.target_margin = RZero THEN <<3, 10>> ELSE pol.target_margin
        factor == RInv(MarginDivisor(m_target))
        allowances_flat ==
            IF "allowances" \in DOMAIN category_totals
            THEN category_totals["allowances"] ELSE pol.allowances_flat
        subtotal_for_surcharges ==
            RAdd(RSum([i \in 1..Len(CatOrder) |-> Get(category_totals, CatOrder[i])]),
                 pol.allowances_flat)
        surcharge_total ==
            IF "surcharges" \in DOMAIN category_totals
            THEN category_totals["surcharges"]
            ELSE IF SurchargePct(pol) # RZero
                 THEN RMul(subtotal_for_surcharges, RDiv(SurchargePct(pol), Int2R(100)))
                 ELSE RZero
        scaled == [i \in 1..Len(CatOrder) |->
                      Round2(RMul(Get(category_totals, CatOrder[i]), factor))]
        allowances_display == Round2(RMul(allowances_flat, factor))
        surcharge_display == Round2(RMul(surcharge_total, factor))
        subtotal_display == Round2(RAdd(RSum(scaled), allowances_display))
        price_sum_no_round == RAdd(subtotal_display, surcharge_display)
        delta == Round2(RSub(price.price_ex_gst, price_sum_no_round))
        cat == [k \in {CatOrder[i] : i \in 1..Len(CatOrder)} |->
                   LET v == scaled[CHOOSE i \in 1..Len(CatOrder) : CatOrder[i] = k]
                   IN  IF k = "install" THEN Round2(RAdd(v, delta)) ELSE v]
    IN  [category_display |-> cat,
         allowances_display |-> allowances_display,
         surcharge_display |-> surcharge_display,
         subtotal_display |->
             Round2(RAdd(RSum([i \in 1..Len(CatOrder) |-> cat[CatOrder[i]]]),
                         allowances_display)),
         factor |-> factor,
         delta |-> delta]

NoPrice == [subtotal_ex_gst |-> RZero, price_ex_gst |-> RZero, gst |-> RZero,
            total_inc_gst |-> RZero]

NoDisplay == [category_display |-> <<>>, allowances_display |-> RZero,
              surcharge_display |-> RZero, subtotal_display |-> RZero,
              factor |-> ROne, delta |-> RZero]

PricingIdle ==
    /\ entry = "none"
    /\ totals = <<>>
    /\ policy = <<>>
    /\ gst_rate = RZero
    /\ price_summary = NoPrice
    /\ surcharge_cost = RZero
    /\ display = NoDisplay

\* Inputs: category costs as the calculators return them, and the policy
Margins == {RZero, <<3, 10>>, <<1, 2>>, <<19999, 20000>>}
Roundings == {RZero, <<1, 2>>, <<5, 2>>, Int2R(10)}

PricingInit ==
    /\ entry \in {"web", "cli"}
    /\ \E materials \in {RZero, <<701, 100>>, Int2R(1000)},
          install \in {RZero, <<105, 2>>},
          overhead \in {RZero, <<3333, 100>>},
          fp_cost \in {RZero, Int2R(66)} :
          totals =
              IF entry = "web"
              THEN [materials |-> materials, edgeband |-> RZero, hardware |-> RZero,
                    cnc |-> RZero, panel_saw |-> RZero, assembly |-> RZero,
                    install |-> install, finger_pull |-> fp_cost,
                    delivery |-> RZero, overhead |-> overhead]
              ELSE [materials |-> materials, edgeband |-> RZero, hardware |-> RZero,
                    cnc |-> RZero, panel_saw |-> RZero, assembly |-> RZero,
                    install |-> install, overhead |-> overhead]
    /\ \E m \in Margins, r \in Roundings, a \in {RZero, Int2R(25)}, w \in {RZero, <<5, 2>>} :
          policy = [target_margin |-> m, rounding |-> r, allowances_flat |-> a,
                    surcharges |-> [warranty_percent |-> w,
                                    contingency_percent |-> RZero,
                                    merchant_percent |-> RZero]]
    /\ gst_rate = <<1, 10>>
    /\ price_summary = NoPrice
    /\ surcharge_cost = RZero
    /\ display = NoDisplay

\* _compute_project: allowances into the totals, the surcharge on them, then
\* calc_pricing.price on the totals
WebPrice ==
    /\ pc = "price"
    /\ entry = "web"
    /\ totals' = WithAllowances(totals, policy)
    /\ surcharge_cost' = SurchargeCost(totals', policy)
    /\ price_summary' = Price(totals', gst_rate, policy)
    /\ pc' = "surcharge"
    /\ UNCHANGED <<entry, policy, gst_rate, display, classifierVars, mergeVars, labourVars,
                   runVars,
                   degradedVars,
                   tripVars,
                   handlerVars,
                   countVars,
                   edgeVars,
                   fpVars,
                   crewVars,
                   ohVars>>

\* _compute_project: the pass-through surcharge added on top of the price
WebSurcharge ==
    /\ pc = "surcharge"
    /\ IF surcharge_cost # RZero
       THEN /\ totals' = [k \in DOMAIN totals \cup {"surcharges"} |->
                             IF k = "surcharges" THEN surcharge_cost ELSE totals[k]]
            /\ price_summary' =
                   LET sub == Round2(RAdd(price_summary.subtotal_ex_gst, surcharge_cost))
                       ex == Round2(RAdd(price_summary.price_ex_gst, surcharge_cost))
                       gst == Round2(RMul(ex, gst_rate))
                   IN  [subtotal_ex_gst |-> sub, price_ex_gst |-> ex, gst |-> gst,
                        total_inc_gst |-> Round2(RAdd(ex, gst))]
       ELSE UNCHANGED <<totals, price_summary>>
    /\ pc' = "render"
    /\ UNCHANGED <<entry, policy, gst_rate, surcharge_cost, display, classifierVars, mergeVars, labourVars,
                   runVars,
                   degradedVars,
                   tripVars,
                   handlerVars,
                   countVars,
                   edgeVars,
                   fpVars,
                   crewVars,
                   ohVars>>

\* cli.py price: pricing.price on the category totals
CliPrice ==
    /\ pc = "price"
    /\ entry = "cli"
    /\ price_summary' = Price(totals, gst_rate, policy)
    /\ pc' = "render"
    /\ UNCHANGED <<entry, totals, policy, gst_rate, surcharge_cost, display,
                   classifierVars, mergeVars, labourVars,
                   runVars,
                   degradedVars,
                   tripVars,
                   handlerVars,
                   countVars,
                   edgeVars,
                   fpVars,
                   crewVars,
                   ohVars>>

\* render_client_quote(price=price_summary, policy=policy, category_totals=totals)
RenderClientQuote ==
    /\ pc = "render"
    /\ display' = RenderDisplay(totals, policy, price_summary)
    /\ pc' = "done"
    /\ UNCHANGED <<entry, totals, policy, gst_rate, price_summary, surcharge_cost,
                   classifierVars, mergeVars, labourVars,
                   runVars,
                   degradedVars,
                   tripVars,
                   handlerVars,
                   countVars,
                   edgeVars,
                   fpVars,
                   crewVars,
                   ohVars>>

\* pricing.price has returned and price_summary is its result, for the totals
\* in `totals`
PriceReturned ==
    \/ entry = "web" /\ pc = "surcharge"
    \/ entry = "cli" /\ pc \in {"render", "done"}

DisplayedSum ==
    RAdd(RAdd(RSum([i \in 1..Len(CatOrder) |-> display.category_display[CatOrder[i]]]),
              display.allowances_display),
         display.surcharge_display)

\* C1: the category amounts, the allowances and the surcharge that
\* render_client_quote displays sum exactly to the price_ex_gst of the
\* PriceSummary it was given.
C1_DisplaySumsToPrice ==
    pc = "done" => DisplayedSum = price_summary.price_ex_gst

\* a rendered quote with allowances, a surcharge, a finger-pull cost outside
\* the displayed categories, and a non-zero delta put on install
C1_Witness ==
    /\ pc = "done"
    /\ entry = "web"
    /\ display.delta # RZero
    /\ display.allowances_display # RZero
    /\ display.surcharge_display # RZero
    /\ totals["finger_pull"] # RZero
    /\ totals["install"] # RZero

\* the price is the multiple of R nearest to raw, exact halves going up, and
\* equals floor((raw + R/2) / R) * R
NearestMultipleHalfUp(price, raw, R) ==
    /\ RIsInt(RDiv(price, R))
    /\ RLe(RSub(price, RDiv(R, Int2R(2))), raw)
    /\ RLt(raw, RAdd(price, RDiv(R, Int2R(2))))
    /\ price = RMul(Int2R(RFloor(RDiv(RAdd(raw, RDiv(R, Int2R(2))), R))), R)

\* C2 as stated: for every margin in [0,1) and every positive configured
\* rounding increment R, price_ex_gst is floor((subtotal/(1-margin) + R/2) / R) * R.
C2_RoundedToConfiguredIncrement ==
    (/\ PriceReturned
     /\ RLt(RZero, policy.rounding)
     /\ RLe(RZero, policy.target_margin) /\ RLt(policy.target_margin, ROne))
    => NearestMultipleHalfUp(price_summary.price_ex_gst,
                             RDiv(SumValues(totals), RSub(ROne, policy.target_margin)),
                             policy.rounding)

\* C2 amended: for every subtotal >= 0, every margin in [0, 0.9999] and every
\* configured rounding whose integer part R is at least 1, price_ex_gst is
\* floor((subtotal/(1-margin) + R/2) / R) * R, the multiple of R nearest to the
\* margin-adjusted price with exact halves rounded up.  (A margin above 0.9999
\* divides by 0.0001 instead of 1-margin, and the configured rounding is cut
\* to its integer part, so a rounding below 1 rounds nothing.)
C2_RoundedToIntegerIncrement ==
    (/\ PriceReturned
     /\ RTrunc(policy.rounding) >= 1
     /\ RLe(RZero, policy.target_margin) /\ RLe(policy.target_margin, <<9999, 10000>>))
    => NearestMultipleHalfUp(price_summary.price_ex_gst,
                             RDiv(SumValues(totals), RSub(ROne, policy.target_margin)),
                             Int2R(RTrunc(policy.rounding)))

\* the spec's example (1000 at margin 0.30, R = 10, gives 1430), and an exact
\* half rounded up (1052.50 at margin 0.50 is 2105, which gives 2110)
C2_Witness ==
    /\ PriceReturned
    /\ policy.rounding = Int2R(10)
    /\ \/ /\ SumValues(totals) = Int2R(1000)
          /\ policy.target_margin = <<3, 10>>
          /\ price_summary.price_ex_gst = Int2R(1430)
       \/ /\ SumValues(totals) = <<2105, 2>>
          /\ policy.target_margin = <<1, 2>>
          /\ price_summary.price_ex_gst = Int2R(2110)

\* C3: in every PriceSummary produced (by pricing.price, and by
\* _compute_project with and without a surcharge) gst is the returned
\* price_ex_gst times the GST rate (to the cent) and total_inc_gst is the
\* returned price_ex_gst plus the returned gst.
C3_GstFromReturnedPrice ==
    pc \in {"surcharge", "render", "done"} =>
        /\ price_summary.gst = Round2(RMul(price_summary.price_ex_gst, gst_rate))
        /\ price_summary.total_inc_gst = RAdd(price_summary.price_ex_gst, price_summary.gst)

---------------------------------------------------------------------------
(* Assembly and Install: calculators/assembly.py, calculators/install.py   *)

\* the five inference categories and the classifier bucket each is scaled to
ScaleKeys == <<"drawers", "inner_drawers", "hinges", "feet", "bins">>

map_keys ==
    [drawers |-> "drawer_kits", inner_drawers |-> "inner_drawers", hinges |-> "hinges",
     feet |-> "adj_feet", bins |-> "bins"]

W_drawer == <<"d","r","a","w","e","r">>
W_inner_drawer == <<"i","n","n","e","r"," ","d","r","a","w","e","r">>
W_door == <<"d","o","o","r">>
W_bin == <<"b","i","n">>
W_adjustable_kick == <<"a","d","j","u","s","t","a","b","l","e"," ","k","i","c","k">>
W_floating_shelf == <<"f","l","o","a","t","i","n","g"," ","s","h","e","l","f">>
W_base == <<"b","a","s","e">>

\* infer_counts with a door that has no number counting for none
InferCountsNoDefaultDoor(desc, depth_mm, hinges_per_door) ==
    With(Lower(desc), LAMBDA d :
        With2(SearchCount(W_drawer, d), SearchCount(W_inner_drawer, d), LAMBDA m, m2 :
            With(Max2(SearchCount(W_door, d), 0),
                 LAMBDA doors :
                     [drawers |-> IF m >= 0 THEN m ELSE 0,
                      inner_drawers |->
                          IF Contains(W_inner_drawer, d)
                          THEN (IF m2 >= 0 THEN m2 ELSE 1) ELSE 0,
                      doors |-> doors,
                      bins |-> IF Contains(W_bin, d) THEN 1 ELSE 0,
                      feet |-> IF depth_mm >= 500 THEN 6 ELSE 0,
                      hinges |-> doors * hinges_per_door])))

\* infer_counts(desc, depth_mm), with the hinges the caller derives from the doors
InferCounts(desc, depth_mm, hinges_per_door) ==
    With(Lower(desc), LAMBDA d :
        With2(SearchCount(W_drawer, d), SearchCount(W_inner_drawer, d), LAMBDA m, m2 :
            With(IF Contains(W_door, d)
                 THEN With(SearchCount(W_door, d), LAMBDA m3 : IF m3 >= 0 THEN m3 ELSE 1)
                 ELSE 0,
                 LAMBDA doors :
                     [drawers |-> IF m >= 0 THEN m ELSE 0,
                      inner_drawers |->
                          IF Contains(W_inner_drawer, d)
                          THEN (IF m2 >= 0 THEN m2 ELSE 1) ELSE 0,
                      doors |-> doors,
                      bins |-> IF Contains(W_bin, d) THEN 1 ELSE 0,
                      feet |-> IF depth_mm >= 500 THEN 6 ELSE 0,
                      hinges |-> doors * hinges_per_door])))

\* predicted_totals: the inferred counts summed over the product list
RECURSIVE PredictedTotals(_, _)
PredictedTotals(products, hinges_per_door) ==
    IF products = <<>> THEN <<0, 0, 0, 0, 0>>
    ELSE With2(InferCounts(Head(products).description, Head(products).depth_mm,
                           hinges_per_door),
               PredictedTotals(Tail(products), hinges_per_door),
               LAMBDA c, rest :
                   <<c.drawers + rest[1], c.inner_drawers + rest[2], c.hinges + rest[3],
                     c.feet + rest[4], c.bins + rest[5]>>)

\* perprod_counts.get(item_id, {}): the dictionary is keyed by item, so of the
\* products that share an item the last one's counts are kept
PerProdCounts(products, item_id, hinges_per_door) ==
    LET same == {i \in 1..Len(products) : products[i].item = item_id}
        last == CHOOSE i \in same : \A j \in same : j <= i
    IN  InferCounts(products[last].description, products[last].depth_mm, hinges_per_door)

\* a variant of the scaling that divides whenever the predicted total is positive
ScaleFactorsUnguardedActual(hw, predicted) ==
    LET scale(i) ==
            IF predicted[i] > 0 THEN Rat(hw[map_keys[ScaleKeys[i]]], predicted[i]) ELSE ROne
    IN  <<scale(1), scale(2), scale(3), scale(4), scale(5)>>

\* scales: actual / predicted where both are positive, 1.0 otherwise
ScaleFactors(hw, predicted) ==
    LET scale(i) ==
            LET actual == hw[map_keys[ScaleKeys[i]]]
            IN  IF actual > 0 /\ predicted[i] > 0 THEN Rat(actual, predicted[i]) ELSE ROne
    IN  <<scale(1), scale(2), scale(3), scale(4), scale(5)>>

\* _complexity_multiplier: the product of the multipliers of every key of the
\* complexity map found in the description
RECURSIVE ComplexityMultiplier(_, _)
ComplexityMultiplier(desc, cmap) ==
    IF cmap = <<>> THEN ROne
    ELSE LET rest == ComplexityMultiplier(desc, Tail(cmap))
         IN  IF Contains(Lower(Head(cmap).key), Lower(desc))
             THEN RMul(Head(cmap).mult, rest)
             ELSE rest

NoOverride == [k \in {} |-> RZero]

\* a variant of the override lookup that finds no override for any product
ProductOverrideNone(pov, item_id) == NoOverride

\* ov = pov.get(item_id, {}) if item_id else {}
ProductOverride(pov, item_id) ==
    IF item_id # "" /\ item_id \in DOMAIN pov THEN pov[item_id] ELSE NoOverride

\* ov.get("exclude")
OvExclude(ov) == "exclude" \in DOMAIN ov /\ ov.exclude

\* float(ov.get("complexity", 1.0) or 1.0)
OvComplexity(ov) ==
    IF "complexity" \in DOMAIN ov /\ ov.complexity # RZero THEN ov.complexity ELSE ROne

\* the sum of count * scale * adder over the five categories
AddMin(c, scales, adders) ==
    With2(c, scales, LAMBDA cnt, sc :
        LET term(i) == RMul(RMul(Int2R(cnt[ScaleKeys[i]]), sc[i]), adders[i])
        IN  RSum(<<term(1), term(2), term(3), term(4), term(5)>>))

\* the configuration assembly.estimate reads, at the defaults it falls back to
\* for keys the rates and rules documents do not carry
AssemblyConfig ==
    [shop_rate |-> Int2R(150),
     base_min_per_m2 |-> <<1111, 25>>,
     min_min_per_prod |-> Int2R(10),
     setout_min_per_prod |-> Int2R(5),
     adders |-> <<Int2R(20), Int2R(20), Int2R(1), Int2R(1), Int2R(25)>>,
     hinges_per_door |-> 2]

\* a variant of the hours that adds the set-out minutes to the adjustable kick
AssemblyProductHoursKickSetout(p, products, cmap, pov, scales) ==
    LET cfg == AssemblyConfig
        qty == Max2(1, p.qty)
        comp == ComplexityMultiplier(p.description, cmap)
        ov == ProductOverride(pov, p.item)
    IN  IF OvExclude(ov) THEN RZero
        ELSE LET extra_comp == OvComplexity(ov)
                 area_min ==
                     IF Contains(W_adjustable_kick, Lower(p.description))
                     THEN Int2R(20)
                     ELSE RMax(cfg.min_min_per_prod, RMul(p.area_m2, cfg.base_min_per_m2))
                 c == PerProdCounts(products, p.item, cfg.hinges_per_door)
                 add_min ==
                     IF Contains(W_adjustable_kick, Lower(p.description))
                     THEN RZero ELSE AddMin(c, scales, cfg.adders)
                 minutes == RMul(RMul(RAdd(RAdd(area_min, add_min),
                                           cfg.setout_min_per_prod), comp), extra_comp)
             IN  RMul(RDiv(minutes, Int2R(60)), Int2R(qty))

\* assembly.estimate: the hours of one product of the list
AssemblyProductHours(p, products, cmap, pov, scales) ==
    LET cfg == AssemblyConfig
        qty == Max2(1, p.qty)
        comp == ComplexityMultiplier(p.description, cmap)
        ov == ProductOverride(pov, p.item)
    IN  IF OvExclude(ov) THEN RZero
        ELSE LET extra_comp == OvComplexity(ov)
                 minutes ==
                     IF Contains(W_adjustable_kick, Lower(p.description))
                     THEN RMul(RMul(Int2R(20), comp), extra_comp)
                     ELSE LET area_min == RMax(cfg.min_min_per_prod,
                                               RMul(p.area_m2, cfg.base_min_per_m2))
                              c == PerProdCounts(products, p.item, cfg.hinges_per_door)
                              add_min == AddMin(c, scales, cfg.adders)
                          IN  RMul(RMul(RAdd(RAdd(area_min, add_min),
                                             cfg.setout_min_per_prod), comp), extra_comp)
             IN  RMul(RDiv(minutes, Int2R(60)), Int2R(qty))

\* the hours of the products from the i-th on, in list order
RECURSIVE AssemblyHoursFrom(_, _, _, _, _)
AssemblyHoursFrom(i, products, cmap, pov, scales) ==
    IF i > Len(products) THEN <<>>
    ELSE <<AssemblyProductHours(products[i], products, cmap, pov, scales)>>
         \o AssemblyHoursFrom(i + 1, products, cmap, pov, scales)

\* assembly.estimate(products_data, rules, rates, product_overrides): its
\* result, with the locals it computed on the way
AssemblyEstimate(pd, rules, rts, pov) ==
    With2(classify_hardware(pd.hardware),
          PredictedTotals(pd.products, AssemblyConfig.hinges_per_door),
          LAMBDA hw, predicted :
    With(ScaleFactors(hw, predicted), LAMBDA scales :
    With(AssemblyHoursFrom(1, pd.products, rules.complexity, pov, scales), LAMBDA hours :
    With(RSum(hours), LAMBDA total_hours :
        [result |->
             [hours |-> Round2(total_hours),
              cost |-> Round2(RMul(total_hours, AssemblyConfig.shop_rate)),
              products |-> [i \in 1..Len(pd.products) |->
                               [item |-> pd.products[i].item,
                                description |-> pd.products[i].description,
                                qty |-> Max2(1, pd.products[i].qty),
                                hours |-> Round2(hours[i])]]],
         locals |->
             [hw_totals |-> hw, predicted_totals |-> predicted, scales |-> scales,
              hours |-> hours]]))))

\* the configuration install.estimate reads, at the defaults it falls back to
InstallConfig ==
    [two_person_fraction |-> <<4, 5>>,
     one_person_fraction |-> <<1, 5>>,
     two_person_rate |-> Int2R(190),
     one_person_rate |-> Int2R(95),
     base_min_per_m2 |-> Int2R(30),
     min_min_per_prod |-> Int2R(5),
     adders |-> <<Int2R(5), Int2R(5), Int2R(2), Int2R(1), Int2R(10)>>,
     hinges_per_door |-> 2]

\* the crew fractions, normalised to sum to 1
CrewFractions(two, one) ==
    LET total_frac == RMax(RAdd(two, one), RZero)
    IN  IF RLe(total_frac, RZero)
        THEN [two |-> ROne, one |-> RZero]
        ELSE [two |-> RDiv(two, total_frac), one |-> RDiv(one, total_frac)]

\* blended_rate and the crew-size denominator
BlendedRate ==
    LET cfg == InstallConfig
        f == CrewFractions(cfg.two_person_fraction, cfg.one_person_fraction)
    IN  RAdd(RMul(f.two, cfg.two_person_rate), RMul(f.one, cfg.one_person_rate))

CrewDenominator ==
    LET cfg == InstallConfig
        f == CrewFractions(cfg.two_person_fraction, cfg.one_person_fraction)
    IN  RAdd(RMul(f.two, Int2R(2)), f.one)

\* install.estimate's result record
InstallResult(site_hours, cost, products, person_hours) ==
    LET cfg == InstallConfig
        f == CrewFractions(cfg.two_person_fraction, cfg.one_person_fraction)
    IN  [hours |-> Round2(site_hours),
         cost |-> Round2(cost),
         products |-> products,
         person_hours |-> Round2(person_hours),
         two_person_fraction |-> RRound(f.two, 10000),
         one_person_fraction |-> RRound(f.one, 10000),
         two_person_rate |-> Round2(cfg.two_person_rate),
         one_person_rate |-> Round2(cfg.one_person_rate),
         blended_rate |-> Round2(BlendedRate)]

NoLocals ==
    [hw_totals |-> ZeroTotals, predicted_totals |-> <<0, 0, 0, 0, 0>>,
     scales |-> <<ROne, ROne, ROne, ROne, ROne>>, hours |-> <<>>]

\* install.estimate when rates.defaults.install_hours is positive: the override
\* is the site hours and no product is looked at
InstallOverridePath(override) ==
    [result |-> InstallResult(override, RMul(override, BlendedRate), <<>>,
                              RMul(override, CrewDenominator)),
     locals |-> NoLocals]

\* install.estimate: the person-hours of one product of the list
InstallProductHours(p, products, cmap, pov, scales) ==
    LET cfg == InstallConfig
        qty == Max2(1, p.qty)
        comp == ComplexityMultiplier(p.description, cmap)
        ov == ProductOverride(pov, p.item)
    IN  IF OvExclude(ov) THEN RZero
        ELSE LET desc_l == Lower(p.description)
                 width_m == Rat(p.width_mm, 1000)
                 minutes ==
                     IF Contains(W_floating_shelf, desc_l)
                     THEN RMul(RMul(Int2R(30), width_m), comp)
                     ELSE IF Contains(W_adjustable_kick, desc_l)
                     THEN RMul(RMul(Int2R(15), width_m), comp)
                     ELSE LET area_min == RMax(cfg.min_min_per_prod,
                                               RMul(p.area_m2, cfg.base_min_per_m2))
                              c == PerProdCounts(products, p.item, cfg.hinges_per_door)
                              add_min == AddMin(c, scales, cfg.adders)
                          IN  RMul(RAdd(area_min, add_min), comp)
             IN  RMul(RDiv(minutes, Int2R(60)), Int2R(qty))

\* the person-hours of the products from the i-th on, in list order
RECURSIVE InstallHoursFrom(_, _, _, _, _)
InstallHoursFrom(i, products, cmap, pov, scales) ==
    IF i > Len(products) THEN <<>>
    ELSE <<InstallProductHours(products[i], products, cmap, pov, scales)>>
         \o InstallHoursFrom(i + 1, products, cmap, pov, scales)

\* a variant of the automatic estimate that sums the predicted totals over
\* the products that are not excluded
InstallPerProductSkipExcluded(pd, rts, rules, pov) ==
    With2(classify_hardware(pd.hardware),
          PredictedTotals(SelectSeq(pd.products,
                                    LAMBDA p : ~OvExclude(ProductOverride(pov, p.item))),
                          InstallConfig.hinges_per_door),
          LAMBDA hw, predicted :
    With(ScaleFactors(hw, predicted), LAMBDA scales :
    With(InstallHoursFrom(1, pd.products, rules.install_complexity, pov, scales),
         LAMBDA hours :
    With(RSum(hours), LAMBDA total_person_hours :
    With(RDiv(total_person_hours, RMax(CrewDenominator, <<1, 10000>>)), LAMBDA site_hours :
        [result |->
             InstallResult(site_hours, RMul(site_hours, BlendedRate),
                           [i \in 1..Len(pd.products) |->
                               [item |-> pd.products[i].item,
                                description |-> pd.products[i].description,
                                qty |-> Max2(1, pd.products[i].qty),
                                hours |-> Round2(hours[i])]],
                           total_person_hours),
         locals |->
             [hw_totals |-> hw, predicted_totals |-> predicted, scales |-> scales,
              hours |-> hours]])))))

\* install.estimate's automatic estimate from the products
InstallPerProduct(pd, rts, rules, pov) ==
    With2(classify_hardware(pd.hardware),
          PredictedTotals(pd.products, InstallConfig.hinges_per_door),
          LAMBDA hw, predicted :
    With(ScaleFactors(hw, predicted), LAMBDA scales :
    With(InstallHoursFrom(1, pd.products, rules.install_complexity, pov, scales),
         LAMBDA hours :
    With(RSum(hours), LAMBDA total_person_hours :
    With(RDiv(total_person_hours, RMax(CrewDenominator, <<1, 10000>>)), LAMBDA site_hours :
        [result |->
             InstallResult(site_hours, RMul(site_hours, BlendedRate),
                           [i \in 1..Len(pd.products) |->
                               [item |-> pd.products[i].item,
                                description |-> pd.products[i].description,
                                qty |-> Max2(1, pd.products[i].qty),
                                hours |-> Round2(hours[i])]],
                           total_person_hours),
         locals |->
             [hw_totals |-> hw, predicted_totals |-> predicted, scales |-> scales,
              hours |-> hours]])))))

\* a variant of install.estimate that takes the per-product path whatever the
\* configured override
InstallEstimateNoOverride(pd, rts, rules, pov) == InstallPerProduct(pd, rts, rules, pov)

\* install.estimate(products_data, rates, rules, product_overrides)
InstallEstimate(pd, rts, rules, pov) ==
    LET override == rts.defaults.install_hours
    IN  IF RLt(RZero, override)
        THEN InstallOverridePath(override)
        ELSE InstallPerProduct(pd, rts, rules, pov)

---------------------------------------------------------------------------
(* Finger pull and delivery: web/app.py, _compute_project                  *)

\* _count_fp(products, base_only=True): the doors and drawers named by the
\* descriptions that start with "base"
RECURSIVE CountFp(_)
CountFp(products) ==
    IF products = <<>> THEN [doors |-> 0, drawers |-> 0]
    ELSE With2(Head(products).description, CountFp(Tail(products)), LAMBDA desc, rest :
             IF ~StartsWith(W_base, Lower(desc)) THEN rest
             ELSE With2(SearchBaseCount(W_drawer, desc), SearchBaseCount(W_door, desc),
                        LAMBDA m_draw, m_door :
                            [doors |-> rest.doors + (IF m_door >= 0 THEN m_door ELSE 0),
                             drawers |-> rest.drawers
                                         + (IF m_draw >= 0 THEN m_draw ELSE 0)]))

\* the finger-pull configuration at the defaults _compute_project falls back to
FingerPullConfig ==
    [per_part_fee |-> <<31, 2>>,
     pickup_fee |-> Int2R(35),
     assembly_minutes_per_part |-> Int2R(10),
     install_minutes_per_part |-> Int2R(2),
     shop_rate |-> Int2R(110)]

\* the finger-pull figures of a product list, no finger-pull override set
FingerPullEstimate(pd) ==
    With(CountFp(pd.products), LAMBDA computed_fp :
    LET cfg == FingerPullConfig
        doors_count == Max2(0, computed_fp.doors)
        drawers_count == Max2(0, computed_fp.drawers)
        applied_parts == doors_count + drawers_count
    IN  [doors |-> doors_count,
         drawers |-> drawers_count,
         applied_parts |-> applied_parts,
         cost |-> RAdd(RMul(Int2R(applied_parts), cfg.per_part_fee),
                       IF applied_parts > 0 THEN cfg.pickup_fee ELSE RZero),
         asm_hours |-> RDiv(RMul(Int2R(applied_parts), cfg.assembly_minutes_per_part),
                            Int2R(60)),
         inst_hours |-> RDiv(RMul(Int2R(applied_parts), cfg.install_minutes_per_part),
                             Int2R(60))])

\* the assembly result with the finger-pull assembly time added
AddFingerPullAssembly(asm, fp) ==
    [asm EXCEPT !.hours = Round2(RAdd(asm.hours, fp.asm_hours)),
                !.cost = Round2(RAdd(asm.cost,
                                     RMul(fp.asm_hours, FingerPullConfig.shop_rate)))]

\* the install result with the finger-pull install time added, costed at the
\* result's blended rate (recomputed from the crew configuration when it is 0)
AddFingerPullInstall(inst, fp) ==
    LET blended_rate == IF inst.blended_rate = RZero THEN BlendedRate
                        ELSE inst.blended_rate
    IN  [inst EXCEPT !.hours = Round2(RAdd(inst.hours, fp.inst_hours)),
                     !.cost = Round2(RAdd(inst.cost, RMul(fp.inst_hours, blended_rate)))]

\* _prod_volume_m3(p)
ProdVolumeM3(p) ==
    LET w == Rat(p.width_mm, 1000)
        h == Rat(p.height_mm, 1000)
        d == Rat(p.depth_mm, 1000)
        v == RMul(RMul(RMax(w, RZero), RMax(h, RZero)), RMax(d, RZero))
        q == IF p.qty = 0 THEN 1 ELSE p.qty
    IN  RMul(v, Int2R(q))

\* total_cbm: the volume of the products that no override excludes
RECURSIVE TotalCbm(_, _)
TotalCbm(products, pov) ==
    IF products = <<>> THEN RZero
    ELSE IF OvExclude(ProductOverride(pov, Head(products).item))
         THEN TotalCbm(Tail(products), pov)
         ELSE RAdd(ProdVolumeM3(Head(products)), TotalCbm(Tail(products), pov))

\* the delivery configuration at the defaults _compute_project falls back to
DeliveryConfig ==
    [truck_capacity_cbm |-> Int2R(15),
     load_hours_per_full |-> Int2R(3),
     unload_hours_per_trip |-> <<1, 2>>,
     travel_hours_per_trip |-> Int2R(1),
     rental_admin_hours |-> Int2R(1),
     delivery_rate |-> Int2R(110)]

\* trips = int((total_cbm / cap) + (0 if total_cbm % cap == 0 else 1))
\*         if cap > 0 else 0
\* The quotient and the sum are floats; % of two floats is exact.
Trips(V, C) ==
    IF RLt(RZero, C)
    THEN RTrunc(Fl(RAdd(Fl(RDiv(V, C)), IF RMod(V, C) = RZero THEN RZero ELSE ROne)))
    ELSE 0

\* delivery_result
DeliveryEstimate(pd, pov) ==
    With(TotalCbm(pd.products, pov), LAMBDA total_cbm :
    With(RDiv(total_cbm, DeliveryConfig.truck_capacity_cbm), LAMBDA fill :
    With(Trips(total_cbm, DeliveryConfig.truck_capacity_cbm), LAMBDA trips :
    LET cfg == DeliveryConfig
        load_h == RMul(fill, cfg.load_hours_per_full)
        unload_total_h == RMul(Int2R(trips), cfg.unload_hours_per_trip)
        travel_total_h == RMul(Int2R(trips), cfg.travel_hours_per_trip)
    IN  With(RAdd(RAdd(load_h, unload_total_h),
                  RAdd(travel_total_h, cfg.rental_admin_hours)),
             LAMBDA delivery_hours :
                 [cbm |-> RRound(total_cbm, 1000),
                  trips |-> trips,
                  hours |-> Round2(delivery_hours),
                  cost |-> Round2(RMul(delivery_hours, cfg.delivery_rate))]))))

---------------------------------------------------------------------------
(* The labour pipeline of _compute_project                                 *)

\* Inputs: products as the product-list importer yields them
D_Base2Drawer == <<"B","a","s","e"," ","2"," ","D","r","a","w","e","r"," ","U","n","i","t">>
D_Wall2Door == <<"W","a","l","l"," ","2"," ","D","o","o","r"," ","C","a","b","i","n","e","t">>
D_FloatingShelf == <<"F","l","o","a","t","i","n","g"," ","S","h","e","l","f">>
D_AdjustableKick == <<"A","d","j","u","s","t","a","b","l","e"," ","K","i","c","k">>

ProductCatalogue ==
    <<[description |-> D_Base2Drawer, width_mm |-> 600, height_mm |-> 720,
       depth_mm |-> 600, qty |-> 1],
      [description |-> D_Wall2Door, width_mm |-> 900, height_mm |-> 720,
       depth_mm |-> 300, qty |-> 2],
      [description |-> D_FloatingShelf, width_mm |-> 1200, height_mm |-> 40,
       depth_mm |-> 250, qty |-> 1],
      [description |-> D_AdjustableKick, width_mm |-> 2400, height_mm |-> 150,
       depth_mm |-> 500, qty |-> 1]>>

ItemIds == <<"P1", "P2", "P3", "P4">>

MaxProducts == 2

\* a row of the importer's result: ProductRow's fields and its area_m2
\* property rounded to four places
ProductRow(c, item) ==
    [item |-> item, description |-> c.description, qty |-> c.qty,
     width_mm |-> c.width_mm, height_mm |-> c.height_mm, depth_mm |-> c.depth_mm,
     area_m2 |-> RRound(Rat(c.width_mm * c.height_mm, 1000000), 10000)]

\* the product lists: rows with the item numbers of the list, or all with the
\* empty item the importer gives a list that has no item column
ProductLists(with_items) ==
    {[i \in 1..Len(choice) |->
         ProductRow(ProductCatalogue[choice[i]], IF with_items THEN ItemIds[i] ELSE "")] :
     choice \in UNION {[1..n -> 1..Len(ProductCatalogue)] : n \in 1..MaxProducts}}

HardwareOptions ==
    <<<<>>,
      <<[description |-> D_DrawerKit, qty |-> 3]>>,
      <<[description |-> D_Hinge, qty |-> 6], [description |-> D_AdjLeg, qty |-> 4]>>>>

\* the project's product overrides, as update_product_override writes them
ProductOverrideOptions ==
    <<NoOverride,
      [P1 |-> [exclude |-> TRUE]],
      [P2 |-> [exclude |-> TRUE]],
      [P1 |-> [exclude |-> FALSE, complexity |-> <<3, 2>>]],
      [k \in {""} |-> [exclude |-> TRUE]]>>

RulesOptions ==
    <<[complexity |-> <<>>, install_complexity |-> <<>>],
      [complexity |-> <<[key |-> <<"W","a","l","l">>, mult |-> <<3, 2>>],
                        [key |-> <<"d","o","o","r">>, mult |-> Int2R(2)]>>,
       install_complexity |-> <<[key |-> <<"d","r","a","w","e","r">>, mult |-> <<5, 4>>]>>]>>

InstallHoursOptions == {RZero, Int2R(40)}

NoResult == [hours |-> RZero, cost |-> RZero, products |-> <<>>]

NoFingerPull ==
    [doors |-> 0, drawers |-> 0, applied_parts |-> 0, cost |-> RZero,
     asm_hours |-> RZero, inst_hours |-> RZero]

NoDelivery == [cbm |-> RZero, trips |-> 0, hours |-> RZero, cost |-> RZero]

LabourIdle ==
    /\ products_data = [products |-> <<>>, hardware |-> <<>>]
    /\ overrides = [products |-> NoOverride]
    /\ rates = [defaults |-> [install_hours |-> RZero]]
    /\ assembly_rules = RulesOptions[1]
    /\ asm_result = NoResult
    /\ asm_locals = NoLocals
    /\ inst_result = NoResult
    /\ inst_locals = NoLocals
    /\ finger_pull = NoFingerPull
    /\ delivery_result = NoDelivery

LabourInit ==
    /\ \E o \in 1..Len(ProductOverrideOptions), h \in 1..Len(HardwareOptions) :
          /\ overrides = [products |-> ProductOverrideOptions[o]]
          /\ \E pl \in ProductLists("" \notin DOMAIN ProductOverrideOptions[o])
                       \cup (IF ProductOverrideOptions[o] = NoOverride
                             THEN ProductLists(FALSE) ELSE {}) :
                products_data = [products |-> pl, hardware |-> HardwareOptions[h]]
    /\ \E H \in InstallHoursOptions : rates = [defaults |-> [install_hours |-> H]]
    /\ \E r \in 1..Len(RulesOptions) : assembly_rules = RulesOptions[r]
    /\ asm_result = NoResult
    /\ asm_locals = NoLocals
    /\ inst_result = NoResult
    /\ inst_locals = NoLocals
    /\ finger_pull = NoFingerPull
    /\ delivery_result = NoDelivery

\* asm_result = calc_assembly.estimate(products_data, assembly_rules, rates,
\* product_overrides)
AssemblyStep ==
    /\ pc = "assembly"
    /\ LET r == AssemblyEstimate(products_data, assembly_rules, rates, overrides.products)
       IN  /\ asm_result' = r.result
           /\ asm_locals' = r.locals
    /\ pc' = "install"
    /\ UNCHANGED <<products_data, overrides, rates, assembly_rules, inst_result,
                   inst_locals, finger_pull, delivery_result,
                   classifierVars, mergeVars, pricingVars,
                   runVars,
                   degradedVars,
                   tripVars,
                   handlerVars,
                   countVars,
                   edgeVars,
                   fpVars,
                   crewVars,
                   ohVars>>

\* inst_result = calc_install.estimate(products_data, rates, assembly_rules,
\* product_overrides)
InstallStep ==
    /\ pc = "install"
    /\ LET r == InstallEstimate(products_data, rates, assembly_rules, overrides.products)
       IN  /\ inst_result' = r.result
           /\ inst_locals' = r.locals
    /\ pc' = "finger_pull"
    /\ UNCHANGED <<products_data, overrides, rates, assembly_rules, asm_result,
                   asm_locals, finger_pull, delivery_result,
                   classifierVars, mergeVars, pricingVars,
                   runVars,
                   degradedVars,
                   tripVars,
                   handlerVars,
                   countVars,
                   edgeVars,
                   fpVars,
                   crewVars,
                   ohVars>>

\* the finger-pull estimate, and its time added to the assembly and the
\* install result
FingerPullStep ==
    /\ pc = "finger_pull"
    /\ finger_pull' = FingerPullEstimate(products_data)
    /\ asm_result' = AddFingerPullAssembly(asm_result, finger_pull')
    /\ inst_result' = AddFingerPullInstall(inst_result, finger_pull')
    /\ pc' = "delivery"
    /\ UNCHANGED <<products_data, overrides, rates, assembly_rules, asm_locals,
                   inst_locals, delivery_result, classifierVars, mergeVars, pricingVars,
                   runVars,
                   degradedVars,
                   tripVars,
                   handlerVars,
                   countVars,
                   edgeVars,
                   fpVars,
                   crewVars,
                   ohVars>>

\* the loading and delivery estimate from the products' volume
DeliveryStep ==
    /\ pc = "delivery"
    /\ delivery_result' = DeliveryEstimate(products_data, overrides.products)
    /\ pc' = "costed"
    /\ UNCHANGED <<products_data, overrides, rates, assembly_rules, asm_result,
                   asm_locals, inst_result, inst_locals, finger_pull,
                   classifierVars, mergeVars, pricingVars,
                   runVars,
                   degradedVars,
                   tripVars,
                   handlerVars,
                   countVars,
                   edgeVars,
                   fpVars,
                   crewVars,
                   ohVars>>

---------------------------------------------------------------------------
(* Claims about the labour pipeline                                        *)

AssemblyReturned == pc \in {"install", "finger_pull", "delivery", "costed"}
InstallReturned == pc \in {"finger_pull", "delivery", "costed"}
InstallHoursOverride == rates.defaults.install_hours

\* the scale factors in `locals` are classified/predicted where both totals
\* are positive and 1 elsewhere, and all of them are positive
ScalesAsSpecified(locals) ==
    \A i \in 1..Len(ScaleKeys) :
        LET classified == locals.hw_totals[map_keys[ScaleKeys[i]]]
            predicted == locals.predicted_totals[i]
            factor == locals.scales[i]
        IN  /\ (classified > 0 /\ predicted > 0) =>
                   RMul(factor, Int2R(predicted)) = Int2R(classified)
            /\ ~(classified > 0 /\ predicted > 0) => factor = ROne
            /\ RLt(RZero, factor)

\* C4: for each of the five inference categories the scale factor used by
\* Assembly and by Install is classified/predicted when the classified total
\* and the predicted total are both strictly positive and exactly 1 otherwise;
\* it is always positive, and nothing is divided by a zero predicted total.
C4_ScaleFactors ==
    /\ AssemblyReturned =>
           /\ asm_locals.hw_totals = classify_hardware(products_data.hardware)
           /\ ScalesAsSpecified(asm_locals)
    /\ (InstallReturned /\ InstallHoursOverride = RZero) =>
           /\ inst_locals.hw_totals = classify_hardware(products_data.hardware)
           /\ ScalesAsSpecified(inst_locals)

\* both estimators have run on a list where one category is scaled by a
\* factor other than 1, one has hardware classified but nothing predicted,
\* and one has a prediction but no hardware classified
C4_Witness ==
    /\ pc = "costed"
    /\ InstallHoursOverride = RZero
    /\ \E i, j, k \in 1..Len(ScaleKeys) :
          /\ asm_locals.scales[i] # ROne /\ inst_locals.scales[i] # ROne
          /\ asm_locals.hw_totals[map_keys[ScaleKeys[j]]] > 0
          /\ asm_locals.predicted_totals[j] = 0
          /\ inst_locals.scales[j] = ROne
          /\ asm_locals.hw_totals[map_keys[ScaleKeys[k]]] = 0
          /\ inst_locals.predicted_totals[k] > 0
          /\ asm_locals.scales[k] = ROne

\* C9 as stated: with a manual install-hours override H > 0 the install
\* category of the pipeline output has site hours H and cost H * blended_rate,
\* whatever the product list contains.
C9_InstallCategoryIsOverride ==
    (pc = "costed" /\ RLt(RZero, InstallHoursOverride)) =>
        /\ inst_result.hours = InstallHoursOverride
        /\ inst_result.cost = RMul(InstallHoursOverride, <<171, 1>>)

\* C9 amended: with a manual install-hours override H > 0, install.estimate
\* returns site hours H, cost H * blended_rate (to the cent) and no
\* per-product rows whatever the product list contains; the install category
\* of the pipeline output is that result plus the finger-pull install time:
\* hours round(H + parts * 2/60, 2) and cost round(H * blended_rate +
\* parts * 2/60 * blended_rate, 2), parts being the applied finger-pull parts,
\* so it is H and H * blended_rate only when no finger-pull part applies.
C9_OverridePlusFingerPull ==
    RLt(RZero, InstallHoursOverride) =>
        LET H == InstallHoursOverride
            blended == RAdd(RMul(<<4, 5>>, Int2R(190)), RMul(<<1, 5>>, Int2R(95)))
            fp_hours == Rat(finger_pull.applied_parts * 2, 60)
        IN  /\ pc = "finger_pull" =>
                /\ inst_result.hours = Round2(H)
                /\ inst_result.cost = Round2(RMul(H, blended))
                /\ inst_result.products = <<>>
            /\ pc \in {"delivery", "costed"} =>
                /\ inst_result.hours = Round2(RAdd(Round2(H), fp_hours))
                /\ inst_result.cost =
                       Round2(RAdd(Round2(RMul(H, blended)), RMul(fp_hours, Round2(blended))))
                /\ inst_result.products = <<>>
                /\ finger_pull.applied_parts = 0 =>
                       /\ inst_result.hours = H
                       /\ inst_result.cost = RMul(H, blended)

\* the spec's example (H = 40 at 0.8/0.2 and 190/95) on a product list with
\* two finger-pull drawers: 40 h and 6840 from the estimator, 40.07 h and
\* 6851.40 in the pipeline output
C9_Witness ==
    /\ pc = "costed"
    /\ InstallHoursOverride = Int2R(40)
    /\ Len(products_data.products) >= 1
    /\ finger_pull.applied_parts = 2
    /\ inst_result.hours = <<4007, 100>>
    /\ inst_result.cost = <<34257, 5>>

\* the product at position i has an override entry under its item that sets
\* exclude
HasExcludeOverride(i) ==
    LET item == products_data.products[i].item
    IN  item \in DOMAIN overrides.products /\ OvExclude(overrides.products[item])

Positions == 1..Len(products_data.products)

\* w * h * d in cubic metres, times the quantity
VolumeOf(p) == Rat(p.width_mm * p.height_mm * p.depth_mm * p.qty, 1000000000)

\* the rationals of s at the positions that satisfy Keep, summed
SumKept(s, Keep(_)) == RSum([i \in 1..Len(s) |-> IF Keep(i) THEN s[i] ELSE RZero])

\* the product at position i adds nothing to either estimate or to the
\* delivery volume
ContributesNothing(i) ==
    /\ AssemblyReturned =>
           /\ asm_result.products[i].hours = RZero
           /\ asm_locals.hours[i] = RZero
    /\ (InstallReturned /\ InstallHoursOverride = RZero) =>
           /\ inst_result.products[i].hours = RZero
           /\ inst_locals.hours[i] = RZero
    /\ pc = "costed" =>
           delivery_result.cbm =
               RRound(SumKept([j \in Positions |-> VolumeOf(products_data.products[j])],
                              LAMBDA j : j # i /\ ~HasExcludeOverride(j)), 1000)

ClaimedComplexity(i) ==
    LET item == products_data.products[i].item
    IN  IF item \in DOMAIN overrides.products
           /\ "complexity" \in DOMAIN overrides.products[item]
        THEN overrides.products[item].complexity
        ELSE ROne

\* C11: in both Assembly and Install a per-product override complexity c
\* (1.0 when absent) multiplies the hours of a product that is not excluded:
\* its hours are c times its hours with no complexity override.
C11_OverrideComplexityMultiplies ==
    \A i \in Positions :
        ~HasExcludeOverride(i) =>
            /\ AssemblyReturned =>
                   asm_locals.hours[i] =
                       RMul(ClaimedComplexity(i),
                            AssemblyProductHours(products_data.products[i],
                                                 products_data.products,
                                                 assembly_rules.complexity, NoOverride,
                                                 asm_locals.scales))
            /\ (InstallReturned /\ InstallHoursOverride = RZero) =>
                   inst_locals.hours[i] =
                       RMul(ClaimedComplexity(i),
                            InstallProductHours(products_data.products[i],
                                                products_data.products,
                                                assembly_rules.install_complexity,
                                                NoOverride, inst_locals.scales))

---------------------------------------------------------------------------
(* A computation run: web/app.py _compute_project and cli.py price, and    *)
(* calculators/cnc.py                                                      *)

EmptyMap == [k \in {} |-> RZero]

\* d.get(k, {}) on a map of maps
GetMap(d, k) == IF k \in DOMAIN d THEN d[k] ELSE EmptyMap

\* float(cfg.get(k1, {}).get(k2, dflt)) on a configuration of nested maps
Num(cfg, k1, k2, dflt) ==
    IF k1 \in DOMAIN cfg /\ k2 \in DOMAIN cfg[k1].items
    THEN cfg[k1].items[k2].val[1]
    ELSE dflt

\* float(cfg.get(k1, {}).get(k2, dflt) or dflt)
NumOr(cfg, k1, k2, dflt) ==
    With(Num(cfg, k1, k2, dflt), LAMBDA v : IF v = RZero THEN dflt ELSE v)

\* a variant of the CNC area that takes in the items cut on the panel saw
RECURSIVE CncAreaOfAll(_, _, _)
CncAreaOfAll(items, ov, i) ==
    IF i > Len(items) THEN RZero
    ELSE RAdd(items[i].area_m2, CncAreaOfAll(items, ov, i + 1))

\* the loop of estimate_from_materials from item i on: the CNC area and the
\* number of sheets for the panel saw
RECURSIVE CncAreaFrom(_, _, _)
CncAreaFrom(items, ov, i) ==
    IF i > Len(items) THEN RZero
    ELSE With(CncAreaFrom(items, ov, i + 1), LAMBDA rest :
            IF GetMap(ov, items[i].material) # EmptyMap
               /\ GetMap(ov, items[i].material).panel_saw
            THEN rest
            ELSE RAdd(items[i].area_m2, rest))

RECURSIVE SawSheetsFrom(_, _, _)
SawSheetsFrom(items, ov, i) ==
    IF i > Len(items) THEN 0
    ELSE With(SawSheetsFrom(items, ov, i + 1), LAMBDA rest :
            IF GetMap(ov, items[i].material) # EmptyMap
               /\ GetMap(ov, items[i].material).panel_saw
            THEN items[i].qty + rest
            ELSE rest)

\* cnc.estimate_from_materials(mat_bd, rates, material_overrides)
EstimateFromMaterials(items, rts, material_overrides) ==
    LET sqm_per_hour == NumOr(rts, "cnc_area", "sqm_per_hour", Int2R(10))
        panel_min_per_sheet == NumOr(rts, "panel_saw", "minutes_per_sheet", Int2R(15))
        cnc_rate == Num(rts, "machine_rental", "cnc", Num(rts, "machine_rates", "cnc", Num(rts, "labor_rates", "shop", Int2R(150))))
        panel_rate == Num(rts, "machine_rental", "panel_saw", Num(rts, "machine_rates", "panel_saw", Int2R(120)))
    IN  With2(RDiv(CncAreaFrom(items, material_overrides, 1), RMax(sqm_per_hour, <<1, 10000>>)),
              RDiv(RMul(Int2R(SawSheetsFrom(items, material_overrides, 1)), panel_min_per_sheet), Int2R(60)),
              LAMBDA cnc_hours, panel_hours :
                  [cnc |-> [hours |-> Round2(cnc_hours), cost |-> Round2(RMul(cnc_hours, cnc_rate))],
                   panel_saw |-> [hours |-> Round2(panel_hours), cost |-> Round2(RMul(panel_hours, panel_rate))]])

\* materials.breakdown: the items, one per sheet line (material, qty and
\* the area of all its sheets)
RECURSIVE BreakdownItems(_)
BreakdownItems(sh) ==
    IF sh = <<>> THEN <<>>
    ELSE <<[material |-> Head(sh).material,
            qty |-> Head(sh).qty,
            area_m2 |-> RRound(RMul(Int2R(Head(sh).qty), Head(sh).area_per_sheet), 1000)]>>
         \o BreakdownItems(Tail(sh))

\* _calculate_overhead_summary of the central overhead configuration
OverheadSummary == [enabled_total |-> Int2R(8000), internal_hours |-> Int2R(160)]

\* rates.setdefault("overhead", {})["monthly_aud"] = enabled_total, and the
\* same for internal_hours
EnforceOverhead(rts) ==
    LET oh == IF "overhead" \in DOMAIN rts THEN rts["overhead"].items ELSE EmptyMap
    IN  [k \in DOMAIN rts \cup {"overhead"} |->
            IF k = "overhead"
            THEN DictV([j \in DOMAIN oh \cup {"monthly_aud", "internal_hours"} |->
                           IF j = "monthly_aud" THEN Scalar(OverheadSummary.enabled_total)
                           ELSE IF j = "internal_hours" THEN Scalar(OverheadSummary.internal_hours)
                           ELSE oh[j]])
            ELSE rts[k]]

\* a variant of the merge that does not set the overhead figures again after
\* the deep merge
MergeRatesNoEnforce(rts, doc) ==
    With(EnforceOverhead(rts), LAMBDA r :
        IF GetMap(doc, "rates") # EmptyMap
        THEN DeepUpdate(r, doc["rates"])
        ELSE r)

\* _compute_project, the merge of the override document into rates: the
\* overhead figures set, overrides["rates"] deep-merged if present and not
\* empty, the overhead figures set again
MergeRates(rts, doc) ==
    With(EnforceOverhead(rts), LAMBDA r :
        EnforceOverhead(IF GetMap(doc, "rates") # EmptyMap
                        THEN DeepUpdate(r, doc["rates"])
                        ELSE r))

\* rates.yaml as loaded
RatesYaml ==
    ("cnc_area" :> DictV("sqm_per_hour" :> Scalar(Int2R(10))))
    @@ ("panel_saw" :> DictV("minutes_per_sheet" :> Scalar(Int2R(15))))
    @@ ("machine_rental" :> DictV(("cnc" :> Scalar(Int2R(90))) @@ ("panel_saw" :> Scalar(Int2R(60)))))

\* Inputs: the override documents a project may hold
MaterialsOverride ==
    "materials" :> (("MDF" :> [panel_saw |-> TRUE]) @@ ("Ply" :> [panel_saw |-> FALSE]))
RatesOverride == "rates" :> ("cnc_area" :> DictV("sqm_per_hour" :> Scalar(Int2R(20))))

OverrideDocs == {EmptyMap, MaterialsOverride, RatesOverride, MaterialsOverride @@ RatesOverride}

OverrideFiles ==
    {[exists |-> FALSE, doc |-> EmptyMap]} \cup {[exists |-> TRUE, doc |-> d] : d \in OverrideDocs}

SheetLines ==
    {[material |-> "MDF", qty |-> 2, area_per_sheet |-> <<72, 25>>],
     [material |-> "Ply", qty |-> 3, area_per_sheet |-> <<72, 25>>],
     [material |-> "MDF", qty |-> 1, area_per_sheet |-> <<6, 5>>]}

MaxSheets == 2

SheetLists == UNION {[1..n -> SheetLines] : n \in 0..MaxSheets}

\* the steps of the two entry points in the order of their code
WebProgram == <<"load_overrides", "merge_overrides", "materials", "edgeband", "hardware",
                "cnc", "assembly", "install", "done">>
CliProgram == <<"materials", "edgeband", "hardware", "cnc", "load_overrides", "assembly",
                "install", "done">>

Program(e) == IF e = "web" THEN WebProgram ELSE CliProgram

\* the step after step s of entry point e
StepAfter(e, s) ==
    LET prog == Program(e)
    IN  prog[(CHOOSE i \in 1..Len(prog) : prog[i] = s) + 1]

NoCnc == [cnc |-> [hours |-> RZero, cost |-> RZero], panel_saw |-> [hours |-> RZero, cost |-> RZero]]

\* the local that holds the override document is not bound yet
Unbound == [bound |-> FALSE, doc |-> EmptyMap]

RunIdle ==
    /\ run_entry = ""
    /\ overrides_file = [exists |-> FALSE, doc |-> EmptyMap]
    /\ proj_overrides = Unbound
    /\ run_rates = EmptyMap
    /\ sheets = <<>>
    /\ mat_bd = <<>>
    /\ cnc_result = NoCnc
    /\ calc_log = <<>>

\* the entry point is called on a project directory; the configuration files
\* are loaded
RunInit ==
    /\ run_entry \in {"web", "cli"}
    /\ overrides_file \in OverrideFiles
    /\ proj_overrides = Unbound
    /\ run_rates = RatesYaml
    /\ sheets \in SheetLists
    /\ mat_bd = <<>>
    /\ cnc_result = NoCnc
    /\ calc_log = <<>>

\* what a calculator is called with
Call(name, material_overrides) ==
    [calc |-> name, rates |-> run_rates, overrides_bound |-> proj_overrides.bound,
     material_overrides |-> material_overrides]

\* overrides.json is read if it exists, else the document is {}
LoadOverrides ==
    /\ pc = "load_overrides"
    /\ proj_overrides' = [bound |-> TRUE,
                          doc |-> IF overrides_file.exists THEN overrides_file.doc ELSE EmptyMap]
    /\ pc' = StepAfter(run_entry, pc)
    /\ UNCHANGED <<run_entry, overrides_file, run_rates, sheets, mat_bd, cnc_result, calc_log,
                   classifierVars, mergeVars, pricingVars, labourVars,
                   degradedVars,
                   tripVars,
                   handlerVars,
                   countVars,
                   edgeVars,
                   fpVars,
                   crewVars,
                   ohVars>>

\* _compute_project: the override document is merged into the configuration
MergeOverrides ==
    /\ pc = "merge_overrides"
    /\ run_rates' = MergeRates(run_rates, proj_overrides.doc)
    /\ pc' = StepAfter(run_entry, pc)
    /\ UNCHANGED <<run_entry, overrides_file, proj_overrides, sheets, mat_bd, cnc_result,
                   calc_log, classifierVars, mergeVars, pricingVars, labourVars,
                   degradedVars,
                   tripVars,
                   handlerVars,
                   countVars,
                   edgeVars,
                   fpVars,
                   crewVars,
                   ohVars>>

\* mat_bd = materials.breakdown(sheets, ...)
MaterialsStep ==
    /\ pc = "materials"
    /\ mat_bd' = BreakdownItems(sheets)
    /\ calc_log' = Append(calc_log, Call("materials", EmptyMap))
    /\ pc' = StepAfter(run_entry, pc)
    /\ UNCHANGED <<run_entry, overrides_file, proj_overrides, run_rates, sheets, cnc_result,
                   classifierVars, mergeVars, pricingVars, labourVars,
                   degradedVars,
                   tripVars,
                   handlerVars,
                   countVars,
                   edgeVars,
                   fpVars,
                   crewVars,
                   ohVars>>

\* cnc_result = cnc.estimate_from_materials(mat_bd, rates, <material
\* overrides>): the web passes (overrides or {}).get("materials", {}), the
\* CLI passes proj_overrides.get("materials", {}) if the local proj_overrides
\* exists and {} if it does not
CncStep ==
    /\ pc = "cnc"
    /\ LET material_overrides ==
               IF proj_overrides.bound THEN GetMap(proj_overrides.doc, "materials") ELSE EmptyMap
       IN  /\ cnc_result' = EstimateFromMaterials(mat_bd, run_rates, material_overrides)
           /\ calc_log' = Append(calc_log, Call("cnc", material_overrides))
    /\ pc' = StepAfter(run_entry, pc)
    /\ UNCHANGED <<run_entry, overrides_file, proj_overrides, run_rates, sheets, mat_bd,
                   classifierVars, mergeVars, pricingVars, labourVars,
                   degradedVars,
                   tripVars,
                   handlerVars,
                   countVars,
                   edgeVars,
                   fpVars,
                   crewVars,
                   ohVars>>

\* the edgeband, hardware, assembly and install calculators are called with
\* the configuration as it is at that point
CalculatorStep ==
    /\ pc \in {"edgeband", "hardware", "assembly", "install"}
    /\ calc_log' = Append(calc_log, Call(pc, EmptyMap))
    /\ pc' = StepAfter(run_entry, pc)
    /\ UNCHANGED <<run_entry, overrides_file, proj_overrides, run_rates, sheets, mat_bd,
                   cnc_result, classifierVars, mergeVars, pricingVars, labourVars,
                   degradedVars,
                   tripVars,
                   handlerVars,
                   countVars,
                   edgeVars,
                   fpVars,
                   crewVars,
                   ohVars>>

\* the override document of the project as persisted
PersistedOverrides == IF overrides_file.exists THEN overrides_file.doc ELSE EmptyMap

\* the rates a calculator is given show the document's rate overrides
SeesRateOverrides(rts) ==
    LET ov == GetMap(PersistedOverrides, "rates")
    IN  \A k \in DOMAIN ov : k \in DOMAIN rts /\ rts[k] = DeepUpdate(RatesYaml, ov)[k]

\* C12: in both entry points the override document is loaded and merged
\* before any calculator runs: every calculator is called with the document
\* already loaded and with rates that show its rate overrides, and the
\* CNC/panel-saw calculator is given the document's material overrides.
C12_OverridesBeforeCalculators ==
    \A i \in 1..Len(calc_log) :
        /\ calc_log[i].overrides_bound
        /\ SeesRateOverrides(calc_log[i].rates)
        /\ calc_log[i].calc = "cnc" =>
               calc_log[i].material_overrides = GetMap(PersistedOverrides, "materials")

---------------------------------------------------------------------------
(* Numeric fields of degraded input: hardware_counts.py, hardware.py,      *)
(* assembly.py, install.py, edgeband.py time_from_parts                    *)

\* A field of an input record as it arrives: absent from the record, None, a
\* number or a text
Missing == [kind |-> "missing", val |-> RZero, text |-> <<>>]
PyNone == [kind |-> "none", val |-> RZero, text |-> <<>>]
NumV(x) == [kind |-> "num", val |-> x, text |-> <<>>]
StrV(t) == [kind |-> "str", val |-> RZero, text |-> t]

\* the outcome of a conversion: a number, or an exception raised
Ok(x) == [ok |-> TRUE, val |-> x]
Raised == [ok |-> FALSE, val |-> RZero]

\* record.get(field, dflt)
GetField(v, dflt) == IF v.kind = "missing" THEN NumV(dflt) ELSE v

\* Python's truth value of a field
Truthy(v) ==
    \/ v.kind = "num" /\ v.val # RZero
    \/ v.kind = "str" /\ v.text # <<>>

\* v or dflt
OrDefault(v, dflt) == IF Truthy(v) THEN v ELSE NumV(dflt)

\* str.strip()
RECURSIVE Strip(_)
Strip(t) ==
    IF t # <<>> /\ IsSpace(Head(t)) THEN Strip(Tail(t))
    ELSE IF t # <<>> /\ IsSpace(t[Len(t)]) THEN Strip(SubSeq(t, 1, Len(t) - 1))
    ELSE t

AllDigits(t) == t # <<>> /\ \A i \in 1..Len(t) : IsDigit(t[i])

RECURSIVE Pow10(_)
Pow10(n) == IF n = 0 THEN 1 ELSE 10 * Pow10(n - 1)

\* int(v): a number is truncated, a text must be a run of digits between
\* optional blanks, None raises TypeError and any other text ValueError
PyInt(v) ==
    IF v.kind = "num" THEN Ok(Int2R(RTrunc(v.val)))
    ELSE IF v.kind = "str" /\ AllDigits(Strip(v.text)) THEN Ok(Int2R(ParseInt(Strip(v.text))))
    ELSE Raised

\* float(v): a text must be digits with at most one decimal point between
\* optional blanks
PyFloat(v) ==
    IF v.kind = "num" THEN Ok(v.val)
    ELSE IF v.kind = "str"
    THEN With(Strip(v.text), LAMBDA t :
            IF AllDigits(t) THEN Ok(Int2R(ParseInt(t)))
            ELSE IF \E i \in 1..Len(t) :
                        /\ t[i] = "."
                        /\ Len(t) > 1
                        /\ \A j \in 1..Len(t) : j # i => IsDigit(t[j])
            THEN With(CHOOSE i \in 1..Len(t) : t[i] = ".", LAMBDA i :
                    Ok(RAdd(Int2R(ParseInt(SubSeq(t, 1, i - 1))),
                            Rat(ParseInt(SubSeq(t, i + 1, Len(t))), Pow10(Len(t) - i)))))
            ELSE Raised)
    ELSE Raised

\* classify_hardware and hardware.compute: qty = int(h.get("qty", 0) or 0)
HardwareQty(v) == PyInt(OrDefault(GetField(v, RZero), RZero))

\* assembly.estimate and install.estimate:
\* depth = float(p.get("depth_mm", 0.0) or 0.0)
ProductDepth(v) == PyFloat(OrDefault(GetField(v, RZero), RZero))

\* area_m2 = float(p.get("area_m2", 0.0))
ProductArea(v) == PyFloat(GetField(v, RZero))

\* qty = max(1, int(p.get("qty", 1)))
ProductQty(v) ==
    With(PyInt(GetField(v, ROne)), LAMBDA r : IF r.ok THEN Ok(RMax(ROne, r.val)) ELSE r)

\* time_from_parts: try: qty = int(p.get("qty", 0) or 0) except Exception: qty = 0
PartQty(v) ==
    With(PyInt(OrDefault(GetField(v, RZero), RZero)), LAMBDA r : IF r.ok THEN r ELSE Ok(RZero))

\* Inputs: what a numeric field of an export may hold
FieldValues ==
    {Missing, PyNone, NumV(Int2R(2)), StrV(<<"3">>), StrV(<<"2", ".", "5">>), StrV(<<"a", "b", "c">>)}

LineFieldValues == {NumV(Int2R(2)), PyNone, StrV(<<"a", "b", "c">>)}

Fields == {"hw_qty", "depth_mm", "area_m2", "qty", "part_qty"}

NothingParsed == [f \in {} |-> RZero]

DegradedIdle ==
    /\ raw_fields = NothingParsed
    /\ parsed = NothingParsed

\* a hardware line, a product and a part as imported
DegradedInit ==
    /\ raw_fields \in [hw_qty : LineFieldValues, depth_mm : FieldValues, area_m2 : FieldValues,
                qty : FieldValues, part_qty : LineFieldValues]
    /\ parsed = NothingParsed

\* one conversion of the pipeline: the number is kept and the run goes on,
\* or the exception leaves the pipeline
Convert(field, r, next) ==
    /\ IF r.ok
       THEN /\ parsed' = [f \in DOMAIN parsed \cup {field} |-> IF f = field THEN r.val ELSE parsed[f]]
            /\ pc' = next
       ELSE /\ parsed' = parsed
            /\ pc' = "raised"
    /\ UNCHANGED <<raw_fields, classifierVars, mergeVars, pricingVars, labourVars, runVars,
                   tripVars,
                   handlerVars,
                   countVars,
                   edgeVars,
                   fpVars,
                   crewVars,
                   ohVars>>

\* hardware.compute and classify_hardware read the line's quantity
ReadHardwareQty ==
    /\ pc = "hw_qty"
    /\ Convert("hw_qty", HardwareQty(raw_fields.hw_qty), "depth_mm")

\* assembly.estimate, first loop: the product's depth
ReadProductDepth ==
    /\ pc = "depth_mm"
    /\ Convert("depth_mm", ProductDepth(raw_fields.depth_mm), "area_m2")

\* assembly.estimate, second loop: the product's area
ReadProductArea ==
    /\ pc = "area_m2"
    /\ Convert("area_m2", ProductArea(raw_fields.area_m2), "qty")

\* assembly.estimate, second loop: the product's quantity
ReadProductQty ==
    /\ pc = "qty"
    /\ Convert("qty", ProductQty(raw_fields.qty), "part_qty")

\* edgeband.time_from_parts: the part's quantity
ReadPartQty ==
    /\ pc = "part_qty"
    /\ Convert("part_qty", PartQty(raw_fields.part_qty), "returned")

\* the field is missing, None or a text that is not a number
Unparseable(v) == v.kind \in {"missing", "none"} \/ (v.kind = "str" /\ ~PyFloat(v).ok)

\* what an unparseable field is to resolve to: the quantity of a product
\* defaults to 1, every other field to zero
FieldDefault(f) == IF f = "qty" THEN ROne ELSE RZero

\* C13: the calculators never fail on an unparseable numeric field: no
\* conversion raises, and when the pipeline has returned every field that
\* was missing, None or not a number has been taken as zero (or its default).
C13_NeverRaisesOnNumericField ==
    /\ pc # "raised"
    /\ pc = "returned" =>
           \A f \in Fields : Unparseable(raw_fields[f]) => parsed[f] = FieldDefault(f)

---------------------------------------------------------------------------
(* The delivery trip count: web/app.py _compute_project                    *)

\* Inputs: cargo volumes in eighths of a cubic metre and truck capacities,
\* as the floats they are
MaxCbmEighths == 256

CargoVolumes == {Fl(Rat(n, 8)) : n \in 0..MaxCbmEighths}

TruckCapacities == {Int2R(15), <<15, 2>>, Int2R(10)}

TripIdle ==
    /\ trip_cbm = RZero
    /\ trip_cap = RZero
    /\ trip_count = 0

TripInit ==
    /\ trip_cbm \in CargoVolumes
    /\ trip_cap \in TruckCapacities
    /\ trip_count = 0

\* trips = int(...) if cap > 0 else 0
TripStep ==
    /\ pc = "trips"
    /\ trip_count' = Trips(trip_cbm, trip_cap)
    /\ pc' = "tripped"
    /\ UNCHANGED <<trip_cbm, trip_cap, classifierVars, mergeVars, pricingVars, labourVars,
                   runVars, degradedVars,
                   handlerVars,
                   countVars,
                   edgeVars,
                   fpVars,
                   crewVars,
                   ohVars>>

\* C14: for every non-negative cargo volume V and positive capacity C the
\* trip count is ceil(V / C): 0 when V = 0, V / C when V is a multiple of C,
\* floor(V / C) + 1 otherwise.
C14_TripsIsCeiling ==
    pc = "tripped" =>
        /\ trip_count = RCeil(RDiv(trip_cbm, trip_cap))
        /\ trip_cbm = RZero => trip_count = 0
        /\ RIsInt(RDiv(trip_cbm, trip_cap)) => Int2R(trip_count) = RDiv(trip_cbm, trip_cap)
        /\ ~RIsInt(RDiv(trip_cbm, trip_cap)) =>
               trip_count = RFloor(RDiv(trip_cbm, trip_cap)) + 1

\* the factor pricing.price applies to the subtotal: 1 / max(1 - margin, 0.0001)
\* with margin = float(policy.get("target_margin", 0.30))
PricingFactor(pol) == RInv(MarginDivisor(pol.target_margin))

\* C15: the factor render_client_quote applies to each category cost is the
\* 1 / (1 - margin) that pricing.price applies to the subtotal, for every
\* configured target margin in [0, 1), a margin of 0 included.
C15_DisplayFactorIsPricingFactor ==
    pc = "done" => display.factor = PricingFactor(policy)

\* the eight categories render_client_quote lists
DisplayedCategories ==
    {"materials", "edgeband", "hardware", "cnc", "panel_saw", "assembly", "install", "overhead"}

\* a category's cost times the display factor, to cents
ScaledCost(k) == Round2(RMul(Get(totals, k), display.factor))

RECURSIVE ScaledSum(_)
ScaledSum(S) ==
    IF S = {} THEN RZero
    ELSE LET k == CHOOSE x \in S : TRUE
         IN  RAdd(ScaledCost(k), ScaledSum(S \ {k}))

\* the rounded price minus the scaled costs of the categories in S, the
\* allowances and the surcharge
DeltaOver(S) ==
    RSub(price_summary.price_ex_gst,
         RAdd(RAdd(ScaledSum(S), display.allowances_display), display.surcharge_display))

---------------------------------------------------------------------------
(* The override-modifying handlers: web/app.py recalc_project,             *)
(* update_product_override, update_material_override                       *)

\* update_product_override: products.setdefault(item, {}) with exclude set
\* to bool(buyout) and, when the form has one, complexity
ProductChange(item, buyout, complexity) ==
    "products" :> DictV(item :> DictV(
        IF complexity = RZero
        THEN "exclude" :> Scalar(buyout)
        ELSE ("exclude" :> Scalar(buyout)) @@ ("complexity" :> Scalar(complexity))))

\* update_material_override: materials.setdefault(material, {}) with
\* panel_saw set to bool(panel_saw)
MaterialChange(material, panel_saw) ==
    "materials" :> DictV(material :> DictV("panel_saw" :> Scalar(panel_saw)))

\* recalc_project: the overrides built from a form that gives the shop rate
RecalcChange(shop) ==
    "rates" :> DictV("labor_rates" :> DictV("shop" :> Scalar(shop)))

\* a variant of recalc_project that persists the form's overrides alone
RecalcMergeFormOnly(existing, form_overrides) == form_overrides

\* recalc_project: merged = existing.copy(); _deep_update(merged, overrides)
RecalcMerge(existing, form_overrides) == DeepUpdate(existing, form_overrides)

\* update_product_override and update_material_override: the setdefault
\* chain and the assignments, on the document the handler has read (its
\* products and materials entries are maps whenever a handler wrote them)
SetOverride(existing, change) == DeepUpdate(existing, change)

\* Inputs: the requests that may arrive for one project
RequestOptions ==
    {[handler |-> "update_product_override", change |-> ProductChange("P1", TRUE, RZero)],
     [handler |-> "update_product_override", change |-> ProductChange("P1", FALSE, <<3, 2>>)],
     [handler |-> "update_product_override", change |-> ProductChange("P2", TRUE, RZero)],
     [handler |-> "update_material_override", change |-> MaterialChange("MDF", TRUE)],
     [handler |-> "recalc_project", change |-> RecalcChange(Int2R(120))]}

StoredOptions == {EmptyMap, ProductChange("P2", FALSE, RZero), RecalcChange(Int2R(150))}

MaxRequests == 2

HandlerIdle ==
    /\ ov_store = EmptyMap
    /\ requests = <<>>
    /\ overlapped = FALSE

\* MaxRequests requests have arrived for the project and none has started
HandlerInit ==
    /\ ov_store \in StoredOptions
    /\ requests \in [1..MaxRequests ->
                        {[handler |-> o.handler, change |-> o.change, at |-> "arrived",
                          existing |-> EmptyMap] : o \in RequestOptions}]
    /\ overlapped = FALSE

\* a handler reads overrides.json into its local document.  Nothing in the
\* handlers keeps another request from running before the document is
\* written back: recalc_project awaits the form after the read, and requests
\* served by different workers run side by side.
ReadOverrides(r) ==
    /\ pc = "serving"
    /\ r \in DOMAIN requests
    /\ requests[r].at = "arrived"
    /\ requests' = [requests EXCEPT ![r].at = "read", ![r].existing = ov_store]
    /\ overlapped' = (overlapped \/ \E o \in DOMAIN requests : o # r /\ requests[o].at = "read")
    /\ UNCHANGED <<pc, ov_store, classifierVars, mergeVars, pricingVars, labourVars, runVars,
                   degradedVars, tripVars,
                   countVars,
                   edgeVars,
                   fpVars,
                   crewVars,
                   ohVars>>

\* the handler changes its local document and writes it to overrides.json
WriteOverrides(r) ==
    /\ pc = "serving"
    /\ r \in DOMAIN requests
    /\ requests[r].at = "read"
    /\ ov_store' = IF requests[r].handler = "recalc_project"
                   THEN RecalcMerge(requests[r].existing, requests[r].change)
                   ELSE SetOverride(requests[r].existing, requests[r].change)
    /\ requests' = [requests EXCEPT ![r].at = "written"]
    /\ UNCHANGED <<pc, overlapped, classifierVars, mergeVars, pricingVars, labourVars, runVars,
                   degradedVars, tripVars,
                   countVars,
                   edgeVars,
                   fpVars,
                   crewVars,
                   ohVars>>

AllWritten == \A r \in DOMAIN requests : requests[r].at = "written"

\* the document holds the change: applying it again alters nothing
HoldsChange(doc, change) == DeepUpdate(doc, change) = doc

\* two changes set the same key to different values
Conflict(c1, c2) ==
    DeepUpdate(DeepUpdate(EmptyMap, c1), c2) # DeepUpdate(DeepUpdate(EmptyMap, c2), c1)

\* every submitted change is in the persisted document, a change overwritten
\* by another request's value for the same key aside
NoLostUpdate ==
    \A r \in DOMAIN requests :
        \/ HoldsChange(ov_store, requests[r].change)
        \/ \E o \in DOMAIN requests : o # r /\ Conflict(requests[r].change, requests[o].change)

\* C17 as stated: for any interleaving of concurrent override-modifying
\* requests on one project, once all requests have completed the persisted
\* document contains every submitted change: no update is lost.
C17_NoLostUpdateInAnyInterleaving ==
    AllWritten => NoLostUpdate

\* C17 amended: the handlers do not serialize their read-modify-write; when
\* the requests are run one at a time (no request reads the document while
\* another holds a copy it has not written back), the persisted document
\* contains every submitted change once all requests have completed.
C17_NoLostUpdateWhenSerialized ==
    (AllWritten /\ ~overlapped) => NoLostUpdate

\* a recalc and a product update served one after the other, both persisted
C17_Witness ==
    /\ AllWritten
    /\ ~overlapped
    /\ \E r, o \in DOMAIN requests :
          /\ requests[r].handler = "recalc_project"
          /\ requests[o].handler = "update_product_override"
          /\ requests[r].existing # requests[o].existing
          /\ HoldsChange(ov_store, requests[r].change)
          /\ HoldsChange(ov_store, requests[o].change)

---------------------------------------------------------------------------
(* The inferred counts: assembly.py and install.py, infer_counts            *)

D_PantryDoor == <<"P","a","n","t","r","y"," ","D","o","o","r"," ","U","n","i","t">>
D_Base2InnerDrawer == <<"B","a","s","e"," ","2"," ","I","n","n","e","r"," ","D","r","a","w","e","r">>
D_InnerDrawerBox == <<"I","n","n","e","r"," ","D","r","a","w","e","r"," ","B","o","x">>
D_BinBase1Door == <<"B","i","n"," ","B","a","s","e"," ","1"," ","D","o","o","r">>
D_Tall10Drawer == <<"T","a","l","l"," ","1","0"," "," ","d","r","a","w","e","r"," ","b","a","n","k">>

\* Inputs: descriptions with and without a count before each keyword, and
\* depths on both sides of the 500 mm threshold
CountDescriptions ==
    {D_Base2Drawer, D_Wall2Door, D_PantryDoor, D_Base2InnerDrawer, D_InnerDrawerBox,
     D_BinBase1Door, D_Tall10Drawer, D_FloatingShelf}

CountDepths == {499, 500, 600}

MaxCountRows == 2

CountRows ==
    UNION {[1..n -> [description : CountDescriptions, depth_mm : CountDepths]] :
           n \in 1..MaxCountRows}

\* minutes_adders of assembly_rules.yaml, with and without hinges_per_door
CountRules == {EmptyMap, "hinges_per_door" :> 3}

\* int(madd.get("hinges_per_door", 2))
HingesPerDoor(madd) ==
    IF "hinges_per_door" \in DOMAIN madd THEN madd["hinges_per_door"] ELSE 2

CountIdle ==
    /\ count_rows = <<>>
    /\ count_rules = EmptyMap
    /\ perprod_counts = <<>>
    /\ count_totals = <<0, 0, 0, 0, 0>>

CountInit ==
    /\ count_rows \in CountRows
    /\ count_rules \in CountRules
    /\ perprod_counts = <<>>
    /\ count_totals = <<0, 0, 0, 0, 0>>

\* the loop of estimate over products_data["products"]: infer_counts for
\* each product, its hinges, and the running predicted_totals
CountStep ==
    /\ pc = "count"
    /\ perprod_counts' =
           [i \in 1..Len(count_rows) |->
               InferCounts(count_rows[i].description, count_rows[i].depth_mm,
                           HingesPerDoor(count_rules))]
    /\ count_totals' = PredictedTotals(count_rows, HingesPerDoor(count_rules))
    /\ pc' = "counted"
    /\ UNCHANGED <<count_rows, count_rules, classifierVars, mergeVars, pricingVars,
                   labourVars, runVars, degradedVars, tripVars, handlerVars,
                   edgeVars,
                   fpVars,
                   crewVars,
                   ohVars>>

\* the integer immediately preceding `word` in d: the run of digits that ends
\* where only white space separates it from an occurrence of the word, the
\* leftmost such; -1 when there is none
PrecedingInt(word, d) ==
    LET ends == {e \in 1..Len(d) :
                    /\ IsDigit(d[e])
                    /\ \E j \in (e + 1)..(Len(d) + 1) :
                          /\ MatchAt(word, d, j)
                          /\ \A k \in (e + 1)..(j - 1) : IsSpace(d[k])}
        e == Min(ends)
        b == Min({i \in 1..e : \A k \in i..e : IsDigit(d[k])})
    IN  IF ends = {} THEN -1 ELSE ParseInt(SubSeq(d, b, e))

\* the count of a keyword that stands for one when it has no number
CountOrOne(word, d) ==
    IF ~Contains(word, d) THEN 0
    ELSE IF PrecedingInt(word, d) >= 0 THEN PrecedingInt(word, d) ELSE 1

RECURSIVE SumTo(_, _)
SumTo(f, n) == IF n = 0 THEN 0 ELSE f[n] + SumTo(f, n - 1)

---------------------------------------------------------------------------
(* The subtotal of the returned price summary: web/app.py _compute_project *)

\* every key CategoryTotals can hold when _compute_project returns
TotalsKeys ==
    <<"materials", "edgeband", "hardware", "cnc", "panel_saw", "assembly", "install",
      "finger_pull", "delivery", "overhead", "allowances", "surcharges">>

\* C19: in the output of _compute_project, subtotal_ex_gst of the price
\* summary equals the sum of all entries of the returned category totals,
\* allowances and surcharges included when present, in the surcharge path
\* and in the no-surcharge path.
C19_SubtotalIsSumOfTotals ==
    (entry = "web" /\ pc \in {"render", "done"}) =>
        /\ DOMAIN totals \subseteq {TotalsKeys[i] : i \in 1..Len(TotalsKeys)}
        /\ price_summary.subtotal_ex_gst =
               RSum([i \in 1..Len(TotalsKeys) |-> Get(totals, TotalsKeys[i])])
        /\ (policy.allowances_flat # RZero) <=> ("allowances" \in DOMAIN totals)
        /\ (surcharge_cost # RZero) <=> ("surcharges" \in DOMAIN totals)

\* _compute_project has returned on the surcharge path, with an allowance and
\* a surcharge of a fraction of a cent rounded into the totals
C19_Witness ==
    /\ entry = "web"
    /\ pc = "done"
    /\ "allowances" \in DOMAIN totals
    /\ "surcharges" \in DOMAIN totals
    /\ totals["surcharges"] = surcharge_cost
    /\ surcharge_cost # RMul(RSub(price_summary.subtotal_ex_gst, surcharge_cost),
                             RDiv(SurchargePct(policy), Int2R(100)))
    /\ price_summary.subtotal_ex_gst =
           RAdd(RAdd(totals["materials"], totals["install"]),
                RAdd(RAdd(totals["overhead"], totals["finger_pull"]),
                     RAdd(totals["allowances"], totals["surcharges"])))

---------------------------------------------------------------------------
(* The adjustable kick in assembly.estimate                                *)

IsAdjustableKick(i) ==
    Contains(W_adjustable_kick, Lower(products_data.products[i].description))

\* the terms of the Assembly formula for the product at position i, from the
\* configuration and the locals of assembly.estimate
KickAdders(i) ==
    AddMin(PerProdCounts(products_data.products, products_data.products[i].item,
                         AssemblyConfig.hinges_per_door),
           asm_locals.scales, AssemblyConfig.adders)

\* base minutes times keyword complexity, override complexity and quantity,
\* in hours
KickHours(i, base_minutes) ==
    LET p == products_data.products[i]
        comp == ComplexityMultiplier(p.description, assembly_rules.complexity)
        extra_comp == OvComplexity(ProductOverride(overrides.products, p.item))
    IN  RMul(RDiv(RMul(RMul(base_minutes, comp), extra_comp), Int2R(60)),
             Int2R(Max2(1, p.qty)))

\* C20 as the specification states it: for a non-excluded product whose
\* description contains 'adjustable kick', Assembly replaces only the area
\* term by a fixed 20 minutes; the scaled hardware adders, the set-out
\* minutes, the complexities and the quantity apply as for any other product.
C20_KickReplacesAreaTermOnly ==
    AssemblyReturned =>
        \A i \in Positions :
            (IsAdjustableKick(i) /\ ~HasExcludeOverride(i)) =>
                asm_locals.hours[i] =
                    KickHours(i, RAdd(RAdd(Int2R(20), KickAdders(i)),
                                      AssemblyConfig.setout_min_per_prod))

\* C20 as the code has it: for a non-excluded product whose description
\* contains 'adjustable kick', the minutes are a fixed 20, times the keyword
\* complexity, the override complexity and the quantity; neither the scaled
\* hardware adders nor the set-out minutes are added.
C20_KickIsFixedTwentyMinutes ==
    AssemblyReturned =>
        \A i \in Positions :
            (IsAdjustableKick(i) /\ ~HasExcludeOverride(i)) =>
                asm_locals.hours[i] = KickHours(i, Int2R(20))

\* assembly.estimate has returned for a list with an adjustable kick that
\* is not excluded, carries an override complexity and has hardware adders
\* that its hours leave out
C20_Witness ==
    /\ AssemblyReturned
    /\ \E i \in Positions :
          /\ IsAdjustableKick(i)
          /\ ~HasExcludeOverride(i)
          /\ OvComplexity(ProductOverride(overrides.products,
                                          products_data.products[i].item)) = <<3, 2>>
          /\ RLt(RZero, KickAdders(i))
          /\ asm_locals.hours[i] = <<1, 2>>

---------------------------------------------------------------------------
(* The Assembly formula: calculators/assembly.py estimate                  *)

\* the product of the multipliers of the complexity keywords that occur in
\* the description, taken from the last keyword of the map to the first
RECURSIVE KeywordProduct(_, _, _)
KeywordProduct(desc, cmap, n) ==
    IF n = 0 THEN ROne
    ELSE RMul(KeywordProduct(desc, cmap, n - 1),
              IF Contains(Lower(cmap[n].key), Lower(desc)) THEN cmap[n].mult ELSE ROne)

\* the Assembly minutes formula for the product at position i, with the
\* counts inferred from that product's own description and depth
FormulaHours(i) ==
    LET p == products_data.products[i]
        cfg == AssemblyConfig
        c == InferCounts(p.description, p.depth_mm, cfg.hinges_per_door)
        area_min == RMax(cfg.min_min_per_prod, RMul(p.area_m2, cfg.base_min_per_m2))
        adders == RSum([k \in 1..Len(ScaleKeys) |->
                           RMul(RMul(Int2R(c[ScaleKeys[k]]), asm_locals.scales[k]),
                                cfg.adders[k])])
        K == KeywordProduct(p.description, assembly_rules.complexity,
                            Len(assembly_rules.complexity))
        minutes == RMul(RMul(RAdd(RAdd(area_min, adders), cfg.setout_min_per_prod), K),
                        ClaimedComplexity(i))
    IN  RDiv(RMul(Int2R(Max2(1, p.qty)), minutes), Int2R(60))

\* C21: for every non-excluded, non-special-case product, Assembly hours are
\* qty * (max(min_minutes, area * base_minutes) + the sum over drawers,
\* inner_drawers, hinges, feet and bins of count * scale * adder +
\* setout_minutes) * K * c / 60, with K the product of the multipliers of all
\* complexity keywords occurring in the description and c the override
\* complexity; total hours is the sum over the products and cost is total
\* hours times the shop rate.
C21_AssemblyFormula ==
    AssemblyReturned =>
        /\ \A i \in Positions :
              (~HasExcludeOverride(i) /\ ~IsAdjustableKick(i)) =>
                  asm_locals.hours[i] = FormulaHours(i)
        /\ pc = "install" =>
              /\ asm_result.hours = Round2(RSum(asm_locals.hours))
              /\ asm_result.cost =
                     Round2(RMul(RSum(asm_locals.hours), AssemblyConfig.shop_rate))

---------------------------------------------------------------------------
(* The CNC / panel-saw partition: calculators/cnc.py                       *)

\* the call of estimate_from_materials in the log, once it has been made
CncCalled == \E i \in 1..Len(calc_log) : calc_log[i].calc = "cnc"
CncCall == calc_log[CHOOSE i \in 1..Len(calc_log) : calc_log[i].calc = "cnc"]

\* the items whose material the overrides given to the call flag panel_saw
FlaggedItems ==
    {i \in 1..Len(mat_bd) :
        /\ mat_bd[i].material \in DOMAIN CncCall.material_overrides
        /\ CncCall.material_overrides[mat_bd[i].material].panel_saw}

---------------------------------------------------------------------------
(* The part-based edgeband time: calculators/edgeband.py time_from_parts   *)

EdgeKeys == <<"EBW1", "EBL1", "EBW2", "EBL2">>

\* an edge-flag cell: set, empty, blank, or None
FlagSet == StrV(<<"1">>)
FlagEmpty == StrV(<<>>)
FlagBlank == StrV(<<" ">>)

\* Inputs: parts as parts_csv.parse gives them, the quantity an int (0 for an
\* empty Quantity cell)
PartRows ==
    {[qty |-> NumV(Int2R(2)), eb_flags |-> <<FlagSet, FlagEmpty, FlagEmpty, FlagEmpty>>],
     [qty |-> NumV(Int2R(3)), eb_flags |-> <<FlagSet, FlagSet, FlagBlank, PyNone>>],
     [qty |-> NumV(Int2R(1)), eb_flags |-> <<FlagSet, FlagSet, FlagSet, FlagSet>>],
     [qty |-> NumV(Int2R(1)), eb_flags |-> <<FlagEmpty, FlagEmpty, FlagEmpty, FlagEmpty>>],
     [qty |-> NumV(RZero), eb_flags |-> <<FlagSet, FlagEmpty, FlagSet, FlagEmpty>>],
     [qty |-> NumV(RZero), eb_flags |-> <<FlagEmpty, FlagEmpty, FlagEmpty, FlagEmpty>>]}

MaxParts == 2

PartLists == UNION {[1..n -> PartRows] : n \in 0..MaxParts}

\* rates.edgeband.minutes_per_edge: absent, 3 minutes, half a minute
EdgeRates == {Missing, NumV(Int2R(3)), NumV(<<1, 2>>)}

EdgeIdle ==
    /\ parts_data = <<>>
    /\ edge_rates = Missing
    /\ part_i = 0
    /\ count_edges = 0
    /\ edge_hours = RZero

EdgeInit ==
    /\ parts_data \in PartLists
    /\ edge_rates \in EdgeRates
    /\ part_i = 0
    /\ count_edges = 0
    /\ edge_hours = RZero

\* float(rates.edgeband.get("minutes_per_edge", 1.0) or 1.0)
MinutesPerEdge(v) == PyFloat(OrDefault(GetField(v, ROne), ROne)).val

\* val is not None and str(val).strip() != ""
FlagCounts(val) == val.kind # "none" /\ Strip(val.text) # <<>>

\* the edges one part adds to count_edges: for each flag that counts,
\* qty if qty > 0 else 1
PartEdges(p) ==
    With(RTrunc(PartQty(p.qty).val), LAMBDA qty :
        SumTo([k \in 1..Len(EdgeKeys) |->
                  IF FlagCounts(p.eb_flags[k]) THEN (IF qty > 0 THEN qty ELSE 1) ELSE 0],
              Len(EdgeKeys)))

\* one turn of the loop over the parts
EdgeStep ==
    /\ pc = "edges"
    /\ part_i < Len(parts_data)
    /\ count_edges' = count_edges + PartEdges(parts_data[part_i + 1])
    /\ part_i' = part_i + 1
    /\ UNCHANGED <<pc, parts_data, edge_rates, edge_hours, classifierVars, mergeVars,
                   pricingVars, labourVars, runVars, degradedVars, tripVars, handlerVars,
                   countVars,
                   fpVars,
                   crewVars,
                   ohVars>>

\* return round(minutes / 60.0, 2)
EdgeReturn ==
    /\ pc = "edges"
    /\ part_i = Len(parts_data)
    /\ edge_hours' =
           Round2(RDiv(RMul(Int2R(count_edges), MinutesPerEdge(edge_rates)), Int2R(60)))
    /\ pc' = "edged"
    /\ UNCHANGED <<parts_data, edge_rates, part_i, count_edges, classifierVars, mergeVars,
                   pricingVars, labourVars, runVars, degradedVars, tripVars, handlerVars,
                   countVars,
                   fpVars,
                   crewVars,
                   ohVars>>

\* the edged sides of a part as the specification counts them: its quantity
\* for each edge-flag field that is not empty
EdgedSides(p) ==
    RTrunc(p.qty.val)
    * Cardinality({k \in 1..Len(EdgeKeys) :
                      p.eb_flags[k].kind = "str" /\ Strip(p.eb_flags[k].text) # <<>>})

\* C23: the part-based edgeband time counts, for every part, one edged side
\* per non-empty edge-flag field multiplied by the part's quantity, for every
\* quantity >= 0 (a part with quantity 0 contributes 0 edges); the minutes
\* are that count times minutes_per_edge.
C23_EdgesTimesQuantity ==
    /\ pc = "edges" =>
           count_edges = SumTo([i \in 1..part_i |-> EdgedSides(parts_data[i])], part_i)
    /\ pc = "edged" =>
           edge_hours =
               Round2(RDiv(RMul(Int2R(SumTo([i \in 1..Len(parts_data) |->
                                                EdgedSides(parts_data[i])],
                                            Len(parts_data))),
                                IF edge_rates = Missing THEN ROne ELSE edge_rates.val),
                           Int2R(60)))

---------------------------------------------------------------------------
(* The finger-pull surcharge: web/app.py _compute_project                  *)

\* d.get(key, dflt) where dflt is itself a field value
GetOr(v, dflt) == IF v.kind = "missing" THEN dflt ELSE v

\* float(fp_ov.get(k, fp_defaults.get(k, builtin)) or builtin)
FpFee(ov, dflt, builtin) ==
    PyFloat(OrDefault(GetOr(ov, GetField(dflt, builtin)), builtin)).val

\* max(0, int(fp_ov.get(override, computed) or 0) - int(fp_ov.get(subtract, 0) or 0))
FpCount(override, computed, subtract) ==
    Max2(0, RTrunc(PyInt(OrDefault(GetField(override, Int2R(computed)), RZero)).val)
            - RTrunc(PyInt(OrDefault(GetField(subtract, RZero), RZero)).val))

\* bool(fp_ov.get(k, True))
FpApply(v) == v.kind = "missing" \/ Truthy(v)

\* _compute_project, the finger-pull figures: the counts, the applied parts
\* and fp_cost
FingerPullCost(ov, dflt, computed) ==
    LET per_part_fee == FpFee(ov.per_part_fee, dflt.per_part_fee, <<31, 2>>)
        pickup_fee == FpFee(ov.pickup_fee, dflt.pickup_fee, Int2R(35))
        doors_count == FpCount(ov.override_doors, computed.doors, ov.subtract_doors)
        drawers_count == FpCount(ov.override_drawers, computed.drawers, ov.subtract_drawers)
        applied_parts == (IF FpApply(ov.apply_doors) THEN doors_count ELSE 0)
                         + (IF FpApply(ov.apply_drawers) THEN drawers_count ELSE 0)
    IN  [doors_count |-> doors_count, drawers_count |-> drawers_count,
         applied_parts |-> applied_parts,
         fp_cost |-> RAdd(RMul(Int2R(applied_parts), per_part_fee),
                          IF applied_parts > 0 THEN pickup_fee ELSE RZero)]

\* Inputs: the finger-pull override as recalc_project stores it, the
\* finger-pull section of rates.yaml, and the counts found in the product list
FpOverrides ==
    [apply_doors : {Missing, NumV(RZero)},
     apply_drawers : {Missing, NumV(RZero)},
     per_part_fee : {Missing, NumV(RZero), NumV(Int2R(20))},
     pickup_fee : {Missing, NumV(RZero)},
     override_doors : {Missing, NumV(RZero), NumV(Int2R(4))},
     override_drawers : {Missing, NumV(Int2R(3))},
     subtract_doors : {Missing, NumV(ROne), NumV(Int2R(9))},
     subtract_drawers : {Missing, NumV(ROne)}]

FpDefaults ==
    [per_part_fee : {Missing, NumV(RZero), NumV(Int2R(12))},
     pickup_fee : {Missing, NumV(Int2R(50))}]

FpComputed == {[doors |-> 0, drawers |-> 0], [doors |-> 2, drawers |-> 2]}

NoFpOut == [doors_count |-> 0, drawers_count |-> 0, applied_parts |-> 0, fp_cost |-> RZero]

FpIdle ==
    /\ fp_ov = <<>>
    /\ fp_defaults = <<>>
    /\ fp_computed = [doors |-> 0, drawers |-> 0]
    /\ fp_out = NoFpOut

FpInit ==
    /\ fp_ov \in FpOverrides
    /\ fp_defaults \in FpDefaults
    /\ fp_computed \in FpComputed
    /\ fp_out = NoFpOut

FpStep ==
    /\ pc = "fp"
    /\ fp_out' = FingerPullCost(fp_ov, fp_defaults, fp_computed)
    /\ pc' = "fp_done"
    /\ UNCHANGED <<fp_ov, fp_defaults, fp_computed, classifierVars, mergeVars, pricingVars,
                   labourVars, runVars, degradedVars, tripVars, handlerVars, countVars,
                   edgeVars,
                   crewVars,
                   ohVars>>

\* the fee as configured: the override's when it has one, else the one of
\* rates.yaml, else the built-in default; a configured 0 is 0
ConfiguredFee(ov, dflt, builtin) ==
    IF ov.kind # "missing" THEN ov.val
    ELSE IF dflt.kind # "missing" THEN dflt.val
    ELSE builtin

\* the count as specified: the override count if given, else the computed
\* one, less the subtract count, not below 0
ConfiguredCount(override, computed, subtract) ==
    Max2(0, (IF override.kind # "missing" THEN RTrunc(override.val) ELSE computed)
            - (IF subtract.kind # "missing" THEN RTrunc(subtract.val) ELSE 0))

\* C24: the finger-pull surcharge is applied_parts * per_part_fee +
\* (pickup_fee if applied_parts > 0 else 0) for every configured non-negative
\* per-part fee and pickup fee, fees configured as 0 included, where
\* applied_parts = (doors if apply_doors) + (drawers if apply_drawers), each
\* count being max(0, (override count if given, else the computed count) -
\* subtract count); with zero applied parts the surcharge is 0.
C24_FingerPullSurcharge ==
    pc = "fp_done" =>
        LET doors == ConfiguredCount(fp_ov.override_doors, fp_computed.doors,
                                     fp_ov.subtract_doors)
            drawers == ConfiguredCount(fp_ov.override_drawers, fp_computed.drawers,
                                       fp_ov.subtract_drawers)
            applied == (IF fp_ov.apply_doors = Missing THEN doors ELSE 0)
                       + (IF fp_ov.apply_drawers = Missing THEN drawers ELSE 0)
            fee == ConfiguredFee(fp_ov.per_part_fee, fp_defaults.per_part_fee, <<31, 2>>)
            pickup == ConfiguredFee(fp_ov.pickup_fee, fp_defaults.pickup_fee, Int2R(35))
        IN  /\ fp_out.applied_parts = applied
            /\ fp_out.fp_cost = RAdd(RMul(Int2R(applied), fee),
                                     IF applied > 0 THEN pickup ELSE RZero)
            /\ applied = 0 => fp_out.fp_cost = RZero

---------------------------------------------------------------------------
(* The rounding of the returned price: web/app.py _compute_project         *)

\* _compute_project has returned: totals and price_summary are its output
ProjectComputed == entry = "web" /\ pc \in {"render", "done"}

\* C25 as the specification states it: the price_ex_gst in the price summary
\* output by _compute_project is the margin-adjusted price rounded to the
\* rounding increment: whenever R > 0 it is a multiple of R, also when
\* surcharge percentages are configured.
C25_PriceIsMultipleOfIncrement ==
    (ProjectComputed /\ RLt(RZero, policy.rounding)) =>
        RIsInt(RDiv(price_summary.price_ex_gst, policy.rounding))

\* C25 as the code has it: whenever the integer part R of the configured
\* rounding is at least 1, the price_ex_gst output by _compute_project is a
\* multiple of R plus the pass-through surcharge: without a surcharge it is a
\* multiple of R, with one it is that multiple plus the surcharge cost, which
\* is added after the rounding.
C25_PriceIsMultiplePlusSurcharge ==
    (ProjectComputed /\ RTrunc(policy.rounding) >= 1) =>
        LET R == Int2R(RTrunc(policy.rounding))
            surcharge == IF "surcharges" \in DOMAIN totals THEN totals["surcharges"]
                         ELSE RZero
        IN  /\ RIsInt(RDiv(RSub(price_summary.price_ex_gst, surcharge), R))
            /\ surcharge = RZero => RIsInt(RDiv(price_summary.price_ex_gst, R))

\* _compute_project has returned a price with a surcharge on top of a
\* multiple of 10: the price itself is not a multiple of 10
C25_Witness ==
    /\ ProjectComputed
    /\ policy.rounding = Int2R(10)
    /\ "surcharges" \in DOMAIN totals
    /\ ~RIsInt(RDiv(price_summary.price_ex_gst, Int2R(10)))
    /\ RIsInt(RDiv(RSub(price_summary.price_ex_gst, totals["surcharges"]), Int2R(10)))
    /\ RLt(Int2R(1000), price_summary.price_ex_gst)

---------------------------------------------------------------------------
(* The sign of the displayed amounts: output/exporters/html.py             *)

\* C26: every amount in the displayed category breakdown is non-negative
\* after the display reconciliation: for all non-negative category totals,
\* margins in [0,1), rounding increments and surcharges, the displayed
\* install amount (its scaled cost plus the residual delta) is >= 0, as is
\* every other displayed category.
C26_DisplayedAmountsNonNegative ==
    (/\ pc = "done"
     /\ \A k \in DOMAIN totals : RLe(RZero, totals[k])
     /\ RLe(RZero, policy.target_margin) /\ RLt(policy.target_margin, ROne))
    => \A k \in DOMAIN display.category_display :
           RLe(RZero, display.category_display[k])

---------------------------------------------------------------------------
(* The install crew: calculators/install.py, estimate                      *)

\* values of rates.install_team.two_person_fraction and one_person_fraction
CrewValues ==
    {RNeg(ROne), RZero, <<1, 4>>, <<1, 2>>, ROne, Int2R(2), Int2R(3), Int2R(5)}

\* values of rates.defaults.install_hours
CrewOverrides == {RZero, <<1, 2>>, Int2R(3)}

\* values of total_person_hours after the product loop
CrewTotals == {RZero, <<8, 25>>, <<27, 5>>}

NoCrewOut == [path |-> "none"]

CrewIdle ==
    /\ crew_two = RZero
    /\ crew_one = RZero
    /\ crew_override = RZero
    /\ crew_total = RZero
    /\ crew_out = NoCrewOut

CrewInit ==
    /\ crew_two \in CrewValues
    /\ crew_one \in CrewValues
    /\ crew_override \in CrewOverrides
    /\ crew_total \in CrewTotals
    /\ crew_out = NoCrewOut

\* a float of either sign rounded to the nearest float
FlSigned(x) == With(x, LAMBDA a : IF RLt(a, RZero) THEN RNeg(Fl(RNeg(a))) ELSE Fl(a))

\* the crew fractions as estimate normalises them: two float divisions by the
\* float sum of the configured pair
NormaliseCrew(two, one) ==
    With(RMax(FlSigned(RAdd(two, one)), RZero), LAMBDA total_frac :
        IF RLe(total_frac, RZero)
        THEN [two |-> ROne, one |-> RZero]
        ELSE [two |-> FlSigned(RDiv(two, total_frac)),
              one |-> FlSigned(RDiv(one, total_frac))])

\* a variant of the per-product return that bills the person-hours
CrewPerProductBillsPersonHours(f, total_person_hours) ==
    With2(RAdd(RMul(f.two, Int2R(2)), f.one),
          RAdd(RMul(f.two, InstallConfig.two_person_rate),
               RMul(f.one, InstallConfig.one_person_rate)),
          LAMBDA denom, blended_rate :
    With(RDiv(total_person_hours, RMax(denom, <<1, 10000>>)), LAMBDA site_hours :
        [path |-> "products",
         hours |-> Round2(site_hours),
         cost |-> Round2(RMul(total_person_hours, blended_rate)),
         person_hours |-> Round2(total_person_hours),
         two_person_fraction |-> RRound(f.two, 10000),
         one_person_fraction |-> RRound(f.one, 10000),
         blended_rate |-> Round2(blended_rate),
         locals |-> [two_person_frac |-> f.two, one_person_frac |-> f.one,
                     denom |-> denom, site_hours |-> site_hours,
                     blended_rate |-> blended_rate]]))

\* estimate's return when the override is positive
CrewOverrideReturn(f, override) ==
    With2(RAdd(RMul(f.two, Int2R(2)), f.one),
          RAdd(RMul(f.two, InstallConfig.two_person_rate),
               RMul(f.one, InstallConfig.one_person_rate)),
          LAMBDA denom, blended_rate :
        [path |-> "override",
         hours |-> Round2(override),
         cost |-> Round2(RMul(override, blended_rate)),
         person_hours |-> Round2(RMul(override, denom)),
         two_person_fraction |-> RRound(f.two, 10000),
         one_person_fraction |-> RRound(f.one, 10000),
         blended_rate |-> Round2(blended_rate),
         locals |-> [two_person_frac |-> f.two, one_person_frac |-> f.one,
                     denom |-> denom, site_hours |-> override,
                     blended_rate |-> blended_rate]])

\* estimate's return after the product loop
CrewPerProductReturn(f, total_person_hours) ==
    With2(RAdd(RMul(f.two, Int2R(2)), f.one),
          RAdd(RMul(f.two, InstallConfig.two_person_rate),
               RMul(f.one, InstallConfig.one_person_rate)),
          LAMBDA denom, blended_rate :
    With(RDiv(total_person_hours, RMax(denom, <<1, 10000>>)), LAMBDA site_hours :
        [path |-> "products",
         hours |-> Round2(site_hours),
         cost |-> Round2(RMul(site_hours, blended_rate)),
         person_hours |-> Round2(total_person_hours),
         two_person_fraction |-> RRound(f.two, 10000),
         one_person_fraction |-> RRound(f.one, 10000),
         blended_rate |-> Round2(blended_rate),
         locals |-> [two_person_frac |-> f.two, one_person_frac |-> f.one,
                     denom |-> denom, site_hours |-> site_hours,
                     blended_rate |-> blended_rate]]))

\* the crew arithmetic of estimate for one configuration
CrewEstimate(two, one, override, total_person_hours) ==
    With(NormaliseCrew(two, one), LAMBDA f :
        IF RLt(RZero, override)
        THEN CrewOverrideReturn(f, override)
        ELSE CrewPerProductReturn(f, total_person_hours))

CrewStep ==
    /\ pc = "crew"
    /\ pc' = "crewed"
    /\ crew_out' = CrewEstimate(crew_two, crew_one, crew_override, crew_total)
    /\ UNCHANGED <<crew_two, crew_one, crew_override, crew_total>>
    /\ UNCHANGED <<classifierVars, mergeVars, pricingVars, labourVars, runVars,
                   degradedVars, tripVars, handlerVars, countVars, edgeVars, fpVars,
                   ohVars>>

RAbs(x) == With(x, LAMBDA a : IF RLt(a, RZero) THEN RNeg(a) ELSE a)

\* the configured pair has a positive sum
CrewPositiveSum == RLt(RZero, RAdd(crew_two, crew_one))

\* C27 (as stated): for a configured pair with positive sum the fractions
\* used sum to exactly 1 (a non-positive sum yields (1, 0)), blended_rate is
\* the fraction-weighted rate, and on both paths person_hours =
\* site_hours * (2 * two_frac + one_frac) and cost = site_hours * blended_rate
C27_CrewFractionsExact ==
    pc = "crewed" =>
        LET l == crew_out.locals
        IN  /\ IF CrewPositiveSum
               THEN RAdd(l.two_person_frac, l.one_person_frac) = ROne
               ELSE l.two_person_frac = ROne /\ l.one_person_frac = RZero
            /\ l.blended_rate = RAdd(RMul(l.two_person_frac, InstallConfig.two_person_rate),
                                     RMul(l.one_person_frac, InstallConfig.one_person_rate))
            /\ crew_out.person_hours = Round2(RMul(l.site_hours, l.denom))
            /\ crew_out.cost = Round2(RMul(l.site_hours, l.blended_rate))

\* C27 (amended): a non-positive sum yields (1, 0); for a positive sum the
\* fractions used are the two configured values divided by their sum, each
\* rounded to a float, so that they sum to 1 up to the two roundings; the
\* blended rate is the fraction-weighted rate and cost = site_hours *
\* blended_rate on both paths; with the override person_hours = site_hours *
\* (2 * two_frac + one_frac), and after the product loop site_hours =
\* person_hours / max(2 * two_frac + one_frac, 0.0001), which is the same
\* relation whenever that crew size is at least 0.0001
C27_CrewNormalised ==
    pc = "crewed" =>
        LET l == crew_out.locals
            sum == RAdd(crew_two, crew_one)
            u == Rat(1, Pow2(FloatBits))
        IN  /\ IF CrewPositiveSum
               THEN /\ RLe(RAbs(RSub(l.two_person_frac, RDiv(crew_two, sum))),
                           RMul(u, RAbs(RDiv(crew_two, sum))))
                    /\ RLe(RAbs(RSub(l.one_person_frac, RDiv(crew_one, sum))),
                           RMul(u, RAbs(RDiv(crew_one, sum))))
                    /\ RLe(RAbs(RSub(RAdd(l.two_person_frac, l.one_person_frac), ROne)),
                           RMul(u, RAdd(RAbs(RDiv(crew_two, sum)),
                                        RAbs(RDiv(crew_one, sum)))))
               ELSE l.two_person_frac = ROne /\ l.one_person_frac = RZero
            /\ l.denom = RAdd(RMul(l.two_person_frac, Int2R(2)), l.one_person_frac)
            /\ l.blended_rate = RAdd(RMul(l.two_person_frac, InstallConfig.two_person_rate),
                                     RMul(l.one_person_frac, InstallConfig.one_person_rate))
            /\ crew_out.blended_rate = Round2(l.blended_rate)
            /\ crew_out.cost = Round2(RMul(l.site_hours, l.blended_rate))
            /\ IF RLt(RZero, crew_override)
               THEN /\ l.site_hours = crew_override
                    /\ crew_out.person_hours = Round2(RMul(l.site_hours, l.denom))
               ELSE /\ crew_out.person_hours = Round2(crew_total)
                    /\ l.site_hours = RDiv(crew_total, RMax(l.denom, <<1, 10000>>))
                    /\ RLe(<<1, 10000>>, l.denom)
                           => RMul(l.site_hours, l.denom) = crew_total

\* a per-product estimate with person-hours whose two positive normalised
\* fractions do not sum to 1
C27_Witness ==
    /\ pc = "crewed"
    /\ CrewPositiveSum
    /\ crew_out.path = "products"
    /\ crew_total # RZero
    /\ RLt(RZero, crew_out.locals.two_person_frac)
    /\ RLt(RZero, crew_out.locals.one_person_frac)
    /\ RAdd(crew_out.locals.two_person_frac, crew_out.locals.one_person_frac) # ROne

---------------------------------------------------------------------------
(* The overhead figures: web/app.py, _compute_project, and                 *)
(* calculators/overhead.py                                                 *)

\* rates.yaml without and with the overhead figures a sync wrote into it
OverheadRatesYamls ==
    {RatesYaml,
     RatesYaml @@ ("overhead" :> DictV(("monthly_aud" :> Scalar(Int2R(6516)))
                                       @@ ("internal_hours" :> Scalar(Int2R(140)))))}

\* what an override document may hold under rates.overhead
OverheadOverrides ==
    PartialFns({"monthly_aud", "internal_hours", "note"},
               {Scalar(Int2R(1)), Scalar(Int2R(320))})

\* the override documents: none, rates without overhead, rates with overhead
OverheadDocs ==
    {EmptyMap, RatesOverride}
    \cup {"rates" :> ("overhead" :> DictV(f)) : f \in OverheadOverrides \ {EmptyMap}}
    \cup {"rates" :> (("overhead" :> DictV(f)) @@ RatesOverride["rates"]) :
             f \in OverheadOverrides \ {EmptyMap}}

\* drafting, project management and assembly hours
OverheadArgs ==
    {[drafting_hours |-> Int2R(10), pm_hours |-> Int2R(10), assembly_hours |-> h] :
        h \in {RZero, <<5, 2>>}}

NoOhCall == [called |-> FALSE, monthly |-> RZero, internal_hours |-> RZero, cost |-> RZero]

OhIdle ==
    /\ oh_doc = EmptyMap
    /\ oh_rates = EmptyMap
    /\ oh_args = [drafting_hours |-> RZero, pm_hours |-> RZero, assembly_hours |-> RZero]
    /\ oh_call = NoOhCall

OhInit ==
    /\ oh_doc \in OverheadDocs
    /\ oh_rates \in OverheadRatesYamls
    /\ oh_args \in OverheadArgs
    /\ oh_call = NoOhCall

\* overhead.allocate(drafting_hours, pm_hours, assembly_hours, rates)
Allocate(drafting_hours, pm_hours, assembly_hours, rts) ==
    LET monthly == Num(rts, "overhead", "monthly_aud", Int2R(6516))
        internal_hours == Num(rts, "overhead", "internal_hours", Int2R(140))
        oh_per_hour == RDiv(monthly, RMax(internal_hours, ROne))
        total_internal == RAdd(RAdd(drafting_hours, pm_hours), assembly_hours)
    IN  [called |-> TRUE, monthly |-> monthly, internal_hours |-> internal_hours,
         cost |-> Round2(RMul(oh_per_hour, total_internal))]

\* _compute_project merges the override document into rates
OhMerge ==
    /\ pc = "oh_merge"
    /\ oh_rates' = MergeRates(oh_rates, oh_doc)
    /\ pc' = "oh_allocate"
    /\ UNCHANGED <<oh_doc, oh_args, oh_call>>
    /\ UNCHANGED <<classifierVars, mergeVars, pricingVars, labourVars, runVars,
                   degradedVars, tripVars, handlerVars, countVars, edgeVars, fpVars,
                   crewVars>>

\* _compute_project calls the overhead allocator
OhAllocate ==
    /\ pc = "oh_allocate"
    /\ oh_call' = Allocate(oh_args.drafting_hours, oh_args.pm_hours,
                           oh_args.assembly_hours, oh_rates)
    /\ pc' = "oh_done"
    /\ UNCHANGED <<oh_doc, oh_rates, oh_args>>
    /\ UNCHANGED <<classifierVars, mergeVars, pricingVars, labourVars, runVars,
                   degradedVars, tripVars, handlerVars, countVars, edgeVars, fpVars,
                   crewVars>>

\* C28: whatever the override document holds, rates.overhead.monthly_aud and
\* rates.overhead.internal_hours included, the monthly figure and the
\* internal hours the overhead allocator uses in _compute_project are the
\* central overhead configuration's enabled_total and internal_hours
C28_OverheadFromCentralConfig ==
    oh_call.called =>
        /\ oh_call.monthly = OverheadSummary.enabled_total
        /\ oh_call.internal_hours = OverheadSummary.internal_hours
        /\ oh_call.cost =
               Round2(RMul(RDiv(OverheadSummary.enabled_total,
                                RMax(OverheadSummary.internal_hours, ROne)),
                           RAdd(RAdd(oh_args.drafting_hours, oh_args.pm_hours),
                                oh_args.assembly_hours)))

\* the allocator has run on a document that sets both overhead figures to
\* other values than the central configuration's
C28_Witness ==
    /\ pc = "oh_done"
    /\ oh_call.called
    /\ Num(GetMap(oh_doc, "rates"), "overhead", "monthly_aud", OverheadSummary.enabled_total)
           # OverheadSummary.enabled_total
    /\ Num(GetMap(oh_doc, "rates"), "overhead", "internal_hours", OverheadSummary.internal_hours)
           # OverheadSummary.internal_hours
    /\ oh_call.monthly = OverheadSummary.enabled_total

---------------------------------------------------------------------------
(* What a served request leaves alone: web/app.py recalc_project,          *)
(* update_product_override, update_material_override                       *)

\* the key paths of a document that end at a value and not at a nested map
LeafPaths(d) == {p \in Paths(d) : ~IsDict(At(d, p))}

\* the key paths a request addresses: for recalc_project those of the
\* overrides built from the fields its form holds; for a product update the
\* exclude checkbox of its item (an absent field is an unchecked box) and
\* the complexity when given; for a material update the panel_saw checkbox
Addressed(change) == LeafPaths(change)

\* every value of the document before that the request does not address is
\* in the document after, unchanged
KeepsOthers(before, after, change) ==
    \A p \in LeafPaths(before) :
        p \notin Addressed(change) => (p \in LeafPaths(after) /\ At(after, p) = At(before, p))

\* request r writes the document back, having read the current one
ServedAlone(r) ==
    /\ requests[r].at = "read"
    /\ requests'[r].at = "written"
    /\ requests[r].existing = ov_store

\* C29: when the requests are served one at a time, a recalc, a product
\* update or a material update changes only the key paths its form
\* addresses: every other key path of the persisted document, the exclude,
\* complexity and panel_saw entries set earlier included, keeps its value
C29_RequestKeepsOtherKeys ==
    [][\A r \in DOMAIN requests :
           ServedAlone(r) => KeepsOthers(ov_store, ov_store', requests[r].change)]_vars

\* a recalc served after a product update that set exclude and complexity:
\* the product entry is in the document the recalc read and in the document
\* it wrote, next to the rate of its form
C29_Witness ==
    /\ AllWritten
    /\ ~overlapped
    /\ \E r \in DOMAIN requests :
          /\ requests[r].handler = "recalc_project"
          /\ <<"products", "P1", "complexity">> \in LeafPaths(requests[r].existing)
          /\ <<"products", "P1", "exclude">> \in LeafPaths(requests[r].existing)
          /\ requests[r].existing # ov_store
          /\ KeepsOthers(requests[r].existing, ov_store, requests[r].change)
          /\ At(ov_store, <<"products", "P1", "complexity">>) = Scalar(<<3, 2>>)
          /\ At(ov_store, <<"rates", "labor_rates", "shop">>) = Scalar(Int2R(120))

---------------------------------------------------------------------------
(* Excluding a product: calculators/assembly.py and install.py, estimate   *)

\* update_product_override on item x: entry["exclude"] = b
SetExclude(pov, x, b) ==
    [k \in DOMAIN pov \cup {x} |->
        IF k = x
        THEN IF x \in DOMAIN pov THEN [pov[x] EXCEPT !.exclude = b] ELSE [exclude |-> b]
        ELSE pov[k]]

\* the product overrides with the exclude of item x set if it was clear and
\* cleared if it was set
ToggleExclude(pov, x) == SetExclude(pov, x, ~OvExclude(ProductOverride(pov, x)))

\* the items of the product list
ListedItems == {products_data.products[i].item : i \in 1..Len(products_data.products)} \ {""}

\* both estimates have run
LabourEstimated == pc \in {"finger_pull", "delivery", "costed"}

\* two runs of an estimate have the same scale factors and the same hours
\* for every product but those of item x
SameButItem(a, b, x) ==
    /\ a.scales = b.scales
    /\ a.predicted_totals = b.predicted_totals
    /\ Len(a.hours) = Len(b.hours)
    /\ \A i \in 1..Len(a.hours) :
           products_data.products[i].item # x => a.hours[i] = b.hours[i]

\* C30: excluding a product changes only that product's hours: Assembly and
\* Install sum the predicted totals and derive the scale factors over all
\* products, excluded ones included, so setting or clearing exclude on one
\* product leaves the scale factors and the hours of every other product as
\* they were
C30_ExcludeChangesOnlyThatProduct ==
    LabourEstimated =>
        \A x \in ListedItems :
            With(ToggleExclude(overrides.products, x), LAMBDA pov :
                /\ SameButItem(asm_locals,
                               AssemblyEstimate(products_data, assembly_rules, rates, pov).locals,
                               x)
                /\ SameButItem(inst_locals,
                               InstallEstimate(products_data, rates, assembly_rules, pov).locals,
                               x))

\* two products estimated per product with P1 excluded, a scale factor other
\* than 1, hours for P2 in both calculators, and hours for P1 once its
\* exclude is cleared
C30_Witness ==
    /\ LabourEstimated
    /\ Len(products_data.products) = 2
    /\ OvExclude(ProductOverride(overrides.products, "P1"))
    /\ Len(inst_locals.hours) = 2
    /\ \E k \in 1..5 : inst_locals.scales[k] # ROne /\ inst_locals.predicted_totals[k] > 0
    /\ asm_locals.hours[1] = RZero /\ inst_locals.hours[1] = RZero
    /\ asm_locals.hours[2] # RZero /\ inst_locals.hours[2] # RZero
    /\ InstallEstimate(products_data, rates, assembly_rules,
                       ToggleExclude(overrides.products, "P1")).locals.hours[1] # RZero

---------------------------------------------------------------------------
(* Specifications                                                          *)

InitClassify ==
    /\ pc = "classify"
    /\ ClassifyInit
    /\ MergeIdle
    /\ PricingIdle
    /\ LabourIdle
    /\ RunIdle
    /\ DegradedIdle
    /\ TripIdle
    /\ HandlerIdle
    /\ CountIdle
    /\ EdgeIdle
    /\ FpIdle
    /\ CrewIdle
    /\ OhIdle

NextClassify == ClassifyStep \/ ClassifyReturn

SpecClassify == InitClassify /\ [][NextClassify]_vars

InitMerge ==
    /\ pc = "merge"
    /\ MergeInit
    /\ ClassifierIdle
    /\ PricingIdle
    /\ LabourIdle
    /\ RunIdle
    /\ DegradedIdle
    /\ TripIdle
    /\ HandlerIdle
    /\ CountIdle
    /\ EdgeIdle
    /\ FpIdle
    /\ CrewIdle
    /\ OhIdle

NextMerge == MergeStep \/ MergeDone

SpecMerge == InitMerge /\ [][NextMerge]_vars

InitPricing ==
    /\ pc = "price"
    /\ PricingInit
    /\ ClassifierIdle
    /\ MergeIdle
    /\ LabourIdle
    /\ RunIdle
    /\ DegradedIdle
    /\ TripIdle
    /\ HandlerIdle
    /\ CountIdle
    /\ EdgeIdle
    /\ FpIdle
    /\ CrewIdle
    /\ OhIdle

NextPricing == WebPrice \/ WebSurcharge \/ CliPrice \/ RenderClientQuote

SpecPricing == InitPricing /\ [][NextPricing]_vars

InitLabour ==
    /\ pc = "assembly"
    /\ LabourInit
    /\ ClassifierIdle
    /\ MergeIdle
    /\ PricingIdle
    /\ RunIdle
    /\ DegradedIdle
    /\ TripIdle
    /\ HandlerIdle
    /\ CountIdle
    /\ EdgeIdle
    /\ FpIdle
    /\ CrewIdle
    /\ OhIdle

NextLabour == AssemblyStep \/ InstallStep \/ FingerPullStep \/ DeliveryStep

SpecLabour == InitLabour /\ [][NextLabour]_vars

InitRun ==
    /\ RunInit
    /\ pc = Program(run_entry)[1]
    /\ ClassifierIdle
    /\ MergeIdle
    /\ PricingIdle
    /\ LabourIdle
    /\ DegradedIdle
    /\ TripIdle
    /\ HandlerIdle
    /\ CountIdle
    /\ EdgeIdle
    /\ FpIdle
    /\ CrewIdle
    /\ OhIdle

NextRun == LoadOverrides \/ MergeOverrides \/ MaterialsStep \/ CncStep \/ CalculatorStep

SpecRun == InitRun /\ [][NextRun]_vars

InitDegraded ==
    /\ pc = "hw_qty"
    /\ DegradedInit
    /\ ClassifierIdle
    /\ MergeIdle
    /\ PricingIdle
    /\ LabourIdle
    /\ RunIdle
    /\ TripIdle
    /\ HandlerIdle
    /\ CountIdle
    /\ EdgeIdle
    /\ FpIdle
    /\ CrewIdle
    /\ OhIdle

NextDegraded ==
    ReadHardwareQty \/ ReadProductDepth \/ ReadProductArea \/ ReadProductQty \/ ReadPartQty

SpecDegraded == InitDegraded /\ [][NextDegraded]_vars

InitTrips ==
    /\ pc = "trips"
    /\ TripInit
    /\ ClassifierIdle
    /\ MergeIdle
    /\ PricingIdle
    /\ LabourIdle
    /\ RunIdle
    /\ DegradedIdle
    /\ HandlerIdle
    /\ CountIdle
    /\ EdgeIdle
    /\ FpIdle
    /\ CrewIdle
    /\ OhIdle

NextTrips == TripStep

SpecTrips == InitTrips /\ [][NextTrips]_vars

InitHandlers ==
    /\ pc = "serving"
    /\ HandlerInit
    /\ ClassifierIdle
    /\ MergeIdle
    /\ PricingIdle
    /\ LabourIdle
    /\ RunIdle
    /\ DegradedIdle
    /\ TripIdle
    /\ CountIdle
    /\ EdgeIdle
    /\ FpIdle
    /\ CrewIdle
    /\ OhIdle

NextHandlers == \E r \in 1..MaxRequests : ReadOverrides(r) \/ WriteOverrides(r)

SpecHandlers == InitHandlers /\ [][NextHandlers]_vars

InitCounts ==
    /\ pc = "count"
    /\ CountInit
    /\ ClassifierIdle
    /\ MergeIdle
    /\ PricingIdle
    /\ LabourIdle
    /\ RunIdle
    /\ DegradedIdle
    /\ TripIdle
    /\ HandlerIdle
    /\ EdgeIdle
    /\ FpIdle
    /\ CrewIdle
    /\ OhIdle

NextCounts == CountStep

SpecCounts == InitCounts /\ [][NextCounts]_vars

InitEdges ==
    /\ pc = "edges"
    /\ EdgeInit
    /\ ClassifierIdle
    /\ MergeIdle
    /\ PricingIdle
    /\ LabourIdle
    /\ RunIdle
    /\ DegradedIdle
    /\ TripIdle
    /\ HandlerIdle
    /\ CountIdle
    /\ FpIdle
    /\ CrewIdle
    /\ OhIdle

NextEdges == EdgeStep \/ EdgeReturn

SpecEdges == InitEdges /\ [][NextEdges]_vars

InitFingerPull ==
    /\ pc = "fp"
    /\ FpInit
    /\ ClassifierIdle
    /\ MergeIdle
    /\ PricingIdle
    /\ LabourIdle
    /\ RunIdle
    /\ DegradedIdle
    /\ TripIdle
    /\ HandlerIdle
    /\ CountIdle
    /\ EdgeIdle
    /\ CrewIdle
    /\ OhIdle

NextFingerPull == FpStep

SpecFingerPull == InitFingerPull /\ [][NextFingerPull]_vars

InitCrew ==
    /\ pc = "crew"
    /\ CrewInit
    /\ ClassifierIdle
    /\ MergeIdle
    /\ PricingIdle
    /\ LabourIdle
    /\ RunIdle
    /\ DegradedIdle
    /\ TripIdle
    /\ HandlerIdle
    /\ CountIdle
    /\ EdgeIdle
    /\ FpIdle
    /\ OhIdle

NextCrew == CrewStep

SpecCrew == InitCrew /\ [][NextCrew]_vars

InitOverhead ==
    /\ pc = "oh_merge"
    /\ OhInit
    /\ ClassifierIdle
    /\ MergeIdle
    /\ PricingIdle
    /\ LabourIdle
    /\ RunIdle
    /\ DegradedIdle
    /\ TripIdle
    /\ HandlerIdle
    /\ CountIdle
    /\ EdgeIdle
    /\ FpIdle
    /\ CrewIdle

NextOverhead == OhMerge \/ OhAllocate

SpecOverhead == InitOverhead /\ [][NextOverhead]_vars

=============================================================================
